---- MODULE Spec2Model ----
(***************************************************************************)
(* Pulseboard: the polling scheduler (internal/poller/scheduler.go), the   *)
(* probe client (internal/poller/client.go) and the in-memory status store *)
(* (internal/store/memory.go) as state machines.                           *)
(*                                                                         *)
(* Goroutines are processes with a program counter; a critical section     *)
(* under a mutex that never blocks inside is one step.  Time is a discrete *)
(* clock in units of one second, the floor of the scheduler's base tick.   *)
(***************************************************************************)
EXTENDS Integers, Sequences, FiniteSets, TLC

\* ------------------------------------------------------------------ bounds
\* The clock stops at MaxTime; Start and Stop are called at most MaxCalls
\* times in all.
MaxTime == 1
MaxCalls == 3

\* ------------------------------------------------------- scheduler inputs
\* NewScheduler(endpoints, interval, maxConcurrency, logger): two endpoints,
\* "a" with its own interval of 1 s, "b" with interval 0 (use the global
\* interval of 2 s); timeouts of 1 s and 2 s.
EndpointList == <<"a", "b">>
Names == {EndpointList[i] : i \in 1..Len(EndpointList)}
EpInterval == [a |-> 1, b |-> 0]
EpTimeout == [a |-> 1, b |-> 2]
SchedulerConfig == [interval |-> 2, maxConcurrencies |-> {1, 2}]
Callers == {"c1", "c2"}
WorkerSlots == 1..2
NoTime == -1
NoResult == [name |-> "", status |-> "", err |-> ""]

VARIABLES
    \* Scheduler fields
    started, stopped, cancelCalled, wg, onceDone, resultsClosed, results,
    lastPolledAt, baseInterval, maxConcurrency, clientClosed,
    \* the control-loop goroutine of Start and its pollEndpoints frame
    lpc, loops, due, jobs, jobsClosed, tickerNext, tickPending,
    \* the worker goroutines of pollEndpoints
    wpc, wep, wres, wdeadline,
    \* callers of Start and Stop, the parent context, the clock, the reader
    cpc, calls, parentDone, now, stopReturned, readAfterStop,
    \* MemoryStore fields, its subscription channels and the goroutines in Update
    statuses, subscribers, allocated, queue, chClosed, panicked,
    upc, ures, unot, udrop, updates, lastApplied, unsubNoop,
    \* the streaming connections of handleSSE, their request contexts and the
    \* server context
    hpc, hch, hgot, hsnap, hcur, hdl, hwd, hwritten, hfail, reqDone,
    serverDone,
    \* the result consumer goroutine of PulseBoard.Start and its callbacks
    kpc, kres, kcb, cbrun, kapplied,
    \* status derivation: the endpoints whose extractor panicked, what the
    \* logger received, whether a panic left its goroutine, and one call of
    \* pollEndpoint with its arguments and its result
    xpanics, xlog, crashed, din, dout,
    \* the callbacks invoked for the consumer's current result and the panics
    \* the logger was told of; the mutable fields of results as heap cells
    \* (label maps, raw response bytes), the cells of the consumer's public
    \* result, what the running callback found in them, and the label maps
    \* held by the receivers of stored results
    kdone, klog, heap, kpub, kseen, held,
    \* the caller of PulseBoard.Start: where it is and what Start returned;
    \* the HTTP server and the goroutine of Server.Start that shuts it down;
    \* the results sent to the result stream and those the consumer is
    \* through with
    ppc, pret, srv, spc, nsent, ndone,
    \* what an observer of the timed scheduler writes down: the endpoints
    \* handed to the work queue before the ticker exists, and per endpoint
    \* the start of its latest probe and the duration of its latest ended one
    firstDispatch, pstart, pdur,
    \* what an observer of the results writes down: per endpoint the number
    \* of probes started, and that number for the probe of each worker, of
    \* each result in the result stream, of the consumer's result and of the
    \* result the Store holds for the endpoint
    pseq, wseq, rseq, kseq, sseq

schedVars == <<started, stopped, cancelCalled, wg, onceDone, resultsClosed,
               results, lastPolledAt, baseInterval, maxConcurrency,
               clientClosed, lpc, loops, due, jobs, jobsClosed, tickerNext,
               tickPending, wpc, wep, wres, wdeadline, cpc, calls, parentDone,
               now, stopReturned, readAfterStop>>

storeVars == <<statuses, subscribers, allocated, queue, chClosed, panicked,
               upc, ures, unot, udrop, updates, lastApplied, unsubNoop>>

sseVars == <<hpc, hch, hgot, hsnap, hcur, hdl, hwd, hwritten, hfail,
             reqDone, serverDone>>

\* What neither the scheduler nor the store owns.
pbVars == <<kpc, kres, kcb, cbrun, kapplied>>

evalVars == <<xpanics, xlog, crashed, din, dout>>

ordVars == <<pseq, wseq, rseq, kseq, sseq>>

obsVars == <<firstDispatch, pstart, pdur, ordVars>>

recvVars == <<kdone, klog, heap, kpub, kseen, held>>

startVars == <<ppc, pret, srv, spc, nsent, ndone>>

appVars == <<sseVars, pbVars, evalVars, obsVars, recvVars, startVars>>

vars == <<schedVars, storeVars, appVars>>

\* ------------------------------------------------------------- helpers
RECURSIVE gcdDuration(_, _)
gcdDuration(a, b) == IF b = 0 THEN a ELSE gcdDuration(b, a % b)

EffectiveInterval(ep) ==
    IF EpInterval[ep] > 0 THEN EpInterval[ep] ELSE SchedulerConfig.interval

RECURSIVE GcdOfIntervals(_, _)
GcdOfIntervals(acc, i) ==
    IF i > Len(EndpointList) THEN acc
    ELSE GcdOfIntervals(gcdDuration(acc, EffectiveInterval(EndpointList[i])), i + 1)

calculateBaseInterval ==
    IF Len(EndpointList) = 0 THEN SchedulerConfig.interval
    ELSE LET g == GcdOfIntervals(EffectiveInterval(EndpointList[1]), 2)
         IN  IF g < 1 THEN 1 ELSE g

\* s.ctx is derived from the parent in Start: it is done once s.cancel has
\* been called or the parent is done.
ctxDone == started /\ (cancelCalled \/ parentDone)

httpStatusToStatus(code) ==
    IF code >= 200 /\ code < 300 THEN "up"
    ELSE IF code >= 400 /\ code < 500 THEN "degraded"
    ELSE "down"

ResponseCodes == {200}

\* cap(s.results) = len(endpoints)
ResultsCap == Len(EndpointList)

\* DueFrom for which every endpoint is due at every tick.
DueFromEveryTick(i, immediate, t, last) ==
    [j \in 1..(Len(EndpointList) - i + 1) |-> EndpointList[i + j - 1]]

\* DueFrom for which an endpoint is due only after more than its interval.
RECURSIVE DueFromStrictlyLater(_, _, _, _)
DueFromStrictlyLater(i, immediate, t, last) ==
    IF i > Len(EndpointList) THEN <<>>
    ELSE LET ep == EndpointList[i]
             isDue == \/ immediate
                      \/ last[ep] = NoTime
                      \/ t - last[ep] > EffectiveInterval(ep)
         IN  (IF isDue THEN <<ep>> ELSE <<>>)
                \o DueFromStrictlyLater(i + 1, immediate, t, last)

\* DueFrom that looks at the interval alone.
RECURSIVE DueFromIntervalOnly(_, _, _, _)
DueFromIntervalOnly(i, immediate, t, last) ==
    IF i > Len(EndpointList) THEN <<>>
    ELSE LET ep == EndpointList[i]
             isDue == last[ep] # NoTime /\ t - last[ep] >= EffectiveInterval(ep)
         IN  (IF isDue THEN <<ep>> ELSE <<>>)
                \o DueFromIntervalOnly(i + 1, immediate, t, last)

\* The endpoints due at time t, in endpoint order, from index i on.
RECURSIVE DueFrom(_, _, _, _)
DueFrom(i, immediate, t, last) ==
    IF i > Len(EndpointList) THEN <<>>
    ELSE LET ep == EndpointList[i]
             isDue == \/ immediate
                      \/ last[ep] = NoTime
                      \/ t - last[ep] >= EffectiveInterval(ep)
         IN  (IF isDue THEN <<ep>> ELSE <<>>) \o DueFrom(i + 1, immediate, t, last)

SeqToSet(s) == {s[i] : i \in 1..Len(s)}

\* ------------------------------------------------------------------ Init
SchedInit ==
    /\ started = FALSE /\ stopped = FALSE /\ cancelCalled = FALSE
    /\ wg = 0 /\ onceDone = FALSE /\ resultsClosed = FALSE /\ results = <<>>
    /\ lastPolledAt = [e \in Names |-> NoTime]
    /\ baseInterval = 0
    /\ maxConcurrency \in SchedulerConfig.maxConcurrencies
    /\ clientClosed = FALSE
    /\ lpc = "none" /\ loops = 0 /\ due = <<>> /\ jobs = <<>> /\ jobsClosed = FALSE
    /\ tickerNext = NoTime /\ tickPending = FALSE
    /\ wpc = [w \in WorkerSlots |-> "none"]
    /\ wep = [w \in WorkerSlots |-> ""]
    /\ wres = [w \in WorkerSlots |-> NoResult]
    /\ wdeadline = [w \in WorkerSlots |-> NoTime]
    /\ cpc = [c \in Callers |-> "idle"]
    /\ calls = 0
    /\ parentDone = FALSE /\ now = 0
    /\ stopReturned = FALSE /\ readAfterStop = FALSE


\* --------------------------------------------------------- Start and Stop
loopVars == <<lpc, loops, due, jobs, jobsClosed, tickerNext, tickPending>>
workerVars == <<wpc, wep, wres, wdeadline>>
envVars == <<parentDone, now, readAfterStop>>

\* StartLocked without the check of s.started.
StartLockedIgnoresStarted(c) ==
    /\ cpc[c] = "idle" /\ calls < MaxCalls
    /\ calls' = calls + 1
    /\ IF stopped
       THEN UNCHANGED <<started, lastPolledAt, baseInterval, wg, cpc>>
       ELSE /\ started' = TRUE
            /\ lastPolledAt' = [e \in Names |-> NoTime]
            /\ baseInterval' = calculateBaseInterval
            /\ wg' = wg + 1
            /\ cpc' = [cpc EXCEPT ![c] = "spawn"]
    /\ UNCHANGED <<stopped, cancelCalled, onceDone, resultsClosed, results,
                   maxConcurrency, clientClosed, stopReturned>>
    /\ UNCHANGED <<loopVars, workerVars, envVars>>
    /\ UNCHANGED <<storeVars, appVars>>

\* Start, lines 195-210: the section under s.mu.
StartLocked(c) ==
    /\ cpc[c] = "idle" /\ calls < MaxCalls
    /\ calls' = calls + 1
    /\ IF started \/ stopped
       THEN UNCHANGED <<started, lastPolledAt, baseInterval, wg, cpc>>
       ELSE /\ started' = TRUE
            /\ lastPolledAt' = [e \in Names |-> NoTime]
            /\ baseInterval' = calculateBaseInterval
            /\ wg' = wg + 1
            /\ cpc' = [cpc EXCEPT ![c] = "spawn"]
    /\ UNCHANGED <<stopped, cancelCalled, onceDone, resultsClosed, results,
                   maxConcurrency, clientClosed, stopReturned>>
    /\ UNCHANGED <<loopVars, workerVars, envVars>>
    /\ UNCHANGED <<storeVars, appVars>>

\* Start, line 212: go func() { ... }.
StartSpawn(c) ==
    /\ cpc[c] = "spawn"
    /\ cpc' = [cpc EXCEPT ![c] = "idle"]
    /\ lpc' = "immediate"
    /\ loops' = loops + 1
    /\ UNCHANGED <<started, stopped, cancelCalled, wg, onceDone, resultsClosed,
                   results, lastPolledAt, baseInterval, maxConcurrency,
                   clientClosed, calls, stopReturned>>
    /\ UNCHANGED <<due, jobs, jobsClosed, tickerNext, tickPending>>
    /\ UNCHANGED <<workerVars, envVars>>
    /\ UNCHANGED <<storeVars, appVars>>

\* Stop, lines 242-249: the section under s.mu.
StopLocked(c) ==
    /\ cpc[c] = "idle" /\ calls < MaxCalls
    /\ calls' = calls + 1
    /\ cpc' = [cpc EXCEPT ![c] = "stopWait"]
    /\ IF ~stopped
       THEN /\ stopped' = TRUE
            /\ cancelCalled' = started
       ELSE UNCHANGED <<stopped, cancelCalled>>
    /\ UNCHANGED <<started, wg, onceDone, resultsClosed, results, lastPolledAt,
                   baseInterval, maxConcurrency, clientClosed, stopReturned>>
    /\ UNCHANGED <<loopVars, workerVars, envVars>>
    /\ UNCHANGED <<storeVars, appVars>>

\* StopWait without waiting for the wait group.
StopWaitReturnsAtOnce(c) ==
    /\ cpc[c] = "stopWait"
    /\ cpc' = [cpc EXCEPT ![c] = "stopClient"]
    /\ UNCHANGED <<started, stopped, cancelCalled, wg, onceDone, resultsClosed,
                   results, lastPolledAt, baseInterval, maxConcurrency,
                   clientClosed, calls, stopReturned>>
    /\ UNCHANGED <<loopVars, workerVars, envVars>>
    /\ UNCHANGED <<storeVars, appVars>>

\* Stop, line 251: s.wg.Wait().
StopWait(c) ==
    /\ cpc[c] = "stopWait"
    /\ wg = 0
    /\ cpc' = [cpc EXCEPT ![c] = "stopClient"]
    /\ UNCHANGED <<started, stopped, cancelCalled, wg, onceDone, resultsClosed,
                   results, lastPolledAt, baseInterval, maxConcurrency,
                   clientClosed, calls, stopReturned>>
    /\ UNCHANGED <<loopVars, workerVars, envVars>>
    /\ UNCHANGED <<storeVars, appVars>>

\* Stop, lines 254-256: s.client.Close().
StopClientClose(c) ==
    /\ cpc[c] = "stopClient"
    /\ clientClosed' = TRUE
    /\ cpc' = [cpc EXCEPT ![c] = "stopOnce"]
    /\ UNCHANGED <<started, stopped, cancelCalled, wg, onceDone, resultsClosed,
                   results, lastPolledAt, baseInterval, maxConcurrency,
                   calls, stopReturned>>
    /\ UNCHANGED <<loopVars, workerVars, envVars>>
    /\ UNCHANGED <<storeVars, appVars>>

\* Stop, line 259: s.closeOnce.Do(close(s.results)), then Stop returns.
StopCloseOnce(c) ==
    /\ cpc[c] = "stopOnce"
    /\ onceDone' = TRUE
    /\ resultsClosed' = (resultsClosed \/ ~onceDone)
    /\ cpc' = [cpc EXCEPT ![c] = "idle"]
    /\ stopReturned' = TRUE
    /\ UNCHANGED <<started, stopped, cancelCalled, wg, results, lastPolledAt,
                   baseInterval, maxConcurrency, clientClosed, calls>>
    /\ UNCHANGED <<loopVars, workerVars, envVars>>
    /\ UNCHANGED <<storeVars, appVars>>

\* ------------------------------------------------ the control loop of Start
callerVars == <<cpc, calls, stopReturned>>

\* Spawn the workers of pollEndpoints (lines 302-318) for the endpoints d.
\* EnterPollEndpoints with one worker for every due endpoint.
EnterPollEndpointsWorkerPerJob(d) ==
    /\ due' = d
    /\ jobs' = <<>>
    /\ jobsClosed' = FALSE
    /\ wpc' = [w \in WorkerSlots |-> IF w <= Len(d) THEN "recv" ELSE "none"]
    /\ lpc' = "dispatch"

EnterPollEndpoints(d) ==
    /\ due' = d
    /\ jobs' = <<>>
    /\ jobsClosed' = FALSE
    /\ wpc' = [w \in WorkerSlots |-> IF w <= maxConcurrency THEN "recv" ELSE "none"]
    /\ lpc' = "dispatch"

\* Back in the loop of Start after pollDueEndpoints returned: the first
\* return creates the ticker (line 218), then the select of lines 222-227.
EnterSelect ==
    /\ lpc' = "select"
    /\ tickerNext' = IF tickerNext = NoTime THEN now + baseInterval ELSE tickerNext

\* pollDueEndpoints, lines 268-298: the due endpoints under s.mu, then
\* pollEndpoints if there are any.
pollDueEndpoints(immediate) ==
    LET d == DueFrom(1, immediate, now, lastPolledAt)
    IN  /\ lastPolledAt' = [e \in Names |->
                               IF e \in SeqToSet(d) THEN now ELSE lastPolledAt[e]]
        /\ IF d = <<>>
           THEN /\ EnterSelect
                /\ UNCHANGED <<due, jobs, jobsClosed, wpc>>
           ELSE /\ EnterPollEndpoints(d)
                /\ UNCHANGED tickerNext

\* Start, line 216: s.pollDueEndpoints(pollCtx, true).
LoopImmediate ==
    /\ lpc = "immediate"
    /\ pollDueEndpoints(TRUE)
    /\ UNCHANGED <<started, stopped, cancelCalled, wg, onceDone, resultsClosed,
                   results, baseInterval, maxConcurrency, clientClosed>>
    /\ UNCHANGED <<loops, tickPending, wep, wres, wdeadline>>
    /\ UNCHANGED <<callerVars, envVars>>
    /\ UNCHANGED <<storeVars, appVars>>

\* Start, lines 225-226: the ticker case of the select.
LoopTick ==
    /\ lpc = "select"
    /\ tickPending
    /\ tickPending' = FALSE
    /\ pollDueEndpoints(FALSE)
    /\ UNCHANGED <<started, stopped, cancelCalled, wg, onceDone, resultsClosed,
                   results, baseInterval, maxConcurrency, clientClosed>>
    /\ UNCHANGED <<loops, wep, wres, wdeadline>>
    /\ UNCHANGED <<callerVars, envVars>>
    /\ UNCHANGED <<storeVars, appVars>>

\* Start, lines 223-224: the Done case of the select.
LoopCtxDone ==
    /\ lpc = "select"
    /\ ctxDone
    /\ lpc' = "close"
    /\ UNCHANGED <<started, stopped, cancelCalled, wg, onceDone, resultsClosed,
                   results, lastPolledAt, baseInterval, maxConcurrency,
                   clientClosed>>
    /\ UNCHANGED <<loops, due, jobs, jobsClosed, tickerNext, tickPending>>
    /\ UNCHANGED <<workerVars, callerVars, envVars>>
    /\ UNCHANGED <<storeVars, appVars>>

\* Start, line 214 (deferred): s.closeOnce.Do(close(s.results)).
LoopCloseOnce ==
    /\ lpc = "close"
    /\ onceDone' = TRUE
    /\ resultsClosed' = (resultsClosed \/ ~onceDone)
    /\ lpc' = "wgDone"
    /\ UNCHANGED <<started, stopped, cancelCalled, wg, results, lastPolledAt,
                   baseInterval, maxConcurrency, clientClosed>>
    /\ UNCHANGED <<loops, due, jobs, jobsClosed, tickerNext, tickPending>>
    /\ UNCHANGED <<workerVars, callerVars, envVars>>
    /\ UNCHANGED <<storeVars, appVars>>

\* Start, line 213 (deferred): s.wg.Done().
LoopWgDone ==
    /\ lpc = "wgDone"
    /\ wg' = wg - 1
    /\ lpc' = "done"
    /\ UNCHANGED <<started, stopped, cancelCalled, onceDone, resultsClosed,
                   results, lastPolledAt, baseInterval, maxConcurrency,
                   clientClosed>>
    /\ UNCHANGED <<loops, due, jobs, jobsClosed, tickerNext, tickPending>>
    /\ UNCHANGED <<workerVars, callerVars, envVars>>
    /\ UNCHANGED <<storeVars, appVars>>

\* pollEndpoints, lines 320-322: jobs <- ep (the buffer holds every endpoint,
\* so the send never blocks).
DispatchJobStep ==
    /\ lpc = "dispatch"
    /\ due # <<>>
    /\ jobs' = Append(jobs, Head(due))
    /\ due' = Tail(due)
    /\ UNCHANGED <<started, stopped, cancelCalled, wg, onceDone, resultsClosed,
                   results, lastPolledAt, baseInterval, maxConcurrency,
                   clientClosed>>
    /\ UNCHANGED <<lpc, loops, jobsClosed, tickerNext, tickPending>>
    /\ UNCHANGED <<workerVars, callerVars, envVars>>
    /\ UNCHANGED <<storeVars, sseVars, pbVars, evalVars, recvVars, startVars>>

DispatchJob == DispatchJobStep /\ UNCHANGED obsVars

\* pollEndpoints, lines 323-326: the Done case of the dispatch select.
\* DispatchCtxDone that returns without waiting for the workers.
DispatchCtxDoneReturnsAtOnce ==
    /\ lpc = "dispatch"
    /\ due # <<>>
    /\ ctxDone
    /\ jobsClosed' = TRUE
    /\ EnterSelect
    /\ UNCHANGED <<started, stopped, cancelCalled, wg, onceDone, resultsClosed,
                   results, lastPolledAt, baseInterval, maxConcurrency,
                   clientClosed>>
    /\ UNCHANGED <<loops, due, jobs, tickPending>>
    /\ UNCHANGED <<workerVars, callerVars, envVars>>
    /\ UNCHANGED <<storeVars, appVars>>

DispatchCtxDone ==
    /\ lpc = "dispatch"
    /\ due # <<>>
    /\ ctxDone
    /\ jobsClosed' = TRUE
    /\ lpc' = "wait"
    /\ UNCHANGED <<started, stopped, cancelCalled, wg, onceDone, resultsClosed,
                   results, lastPolledAt, baseInterval, maxConcurrency,
                   clientClosed>>
    /\ UNCHANGED <<loops, due, jobs, tickerNext, tickPending>>
    /\ UNCHANGED <<workerVars, callerVars, envVars>>
    /\ UNCHANGED <<storeVars, appVars>>

\* pollEndpoints, line 329: close(jobs) after the last endpoint.
DispatchClose ==
    /\ lpc = "dispatch"
    /\ due = <<>>
    /\ jobsClosed' = TRUE
    /\ lpc' = "wait"
    /\ UNCHANGED <<started, stopped, cancelCalled, wg, onceDone, resultsClosed,
                   results, lastPolledAt, baseInterval, maxConcurrency,
                   clientClosed>>
    /\ UNCHANGED <<loops, due, jobs, tickerNext, tickPending>>
    /\ UNCHANGED <<workerVars, callerVars, envVars>>
    /\ UNCHANGED <<storeVars, appVars>>

\* LoopWaitWorkers without waiting for the workers.
LoopLeavesWorkersBehind ==
    /\ lpc = "wait"
    /\ EnterSelect
    /\ UNCHANGED <<started, stopped, cancelCalled, wg, onceDone, resultsClosed,
                   results, lastPolledAt, baseInterval, maxConcurrency,
                   clientClosed>>
    /\ UNCHANGED <<loops, due, jobs, jobsClosed, tickPending>>
    /\ UNCHANGED <<workerVars, callerVars, envVars>>
    /\ UNCHANGED <<storeVars, appVars>>

\* pollEndpoints, lines 325 and 331: wg.Wait() for the workers, then return
\* to the loop of Start.
LoopWaitWorkers ==
    /\ lpc = "wait"
    /\ \A w \in WorkerSlots : wpc[w] = "none"
    /\ EnterSelect
    /\ UNCHANGED <<started, stopped, cancelCalled, wg, onceDone, resultsClosed,
                   results, lastPolledAt, baseInterval, maxConcurrency,
                   clientClosed>>
    /\ UNCHANGED <<loops, due, jobs, jobsClosed, tickPending>>
    /\ UNCHANGED <<workerVars, callerVars, envVars>>
    /\ UNCHANGED <<storeVars, appVars>>

\* ------------------------------------------------ the workers of pollEndpoints
schedFields == <<started, stopped, cancelCalled, wg, onceDone, resultsClosed,
                 lastPolledAt, baseInterval, maxConcurrency, clientClosed>>

\* pollEndpoints, line 309, and pollEndpoint, line 336: take a job and call
\* Fetch, whose context is the run's context with the endpoint's timeout
\* (client.go, line 85).
WorkerTakeJobStep(w) ==
    /\ wpc[w] = "recv"
    /\ jobs # <<>>
    /\ jobs' = Tail(jobs)
    /\ wpc' = [wpc EXCEPT ![w] = "probe"]
    /\ wep' = [wep EXCEPT ![w] = Head(jobs)]
    /\ wdeadline' = [wdeadline EXCEPT ![w] = now + EpTimeout[Head(jobs)]]
    /\ UNCHANGED <<schedFields, results, wres>>
    /\ UNCHANGED <<lpc, loops, due, jobsClosed, tickerNext, tickPending>>
    /\ UNCHANGED <<callerVars, envVars>>
    /\ UNCHANGED <<storeVars, sseVars, pbVars, evalVars, recvVars, startVars>>

WorkerTakeJob(w) == WorkerTakeJobStep(w) /\ UNCHANGED obsVars

\* pollEndpoints, lines 308-309: the range over jobs ends once jobs is closed
\* and empty; the worker exits.
WorkerJobsClosed(w) ==
    /\ wpc[w] = "recv"
    /\ jobs = <<>>
    /\ jobsClosed
    /\ wpc' = [wpc EXCEPT ![w] = "none"]
    /\ UNCHANGED <<schedFields, results, wep, wres, wdeadline>>
    /\ UNCHANGED <<loopVars, callerVars, envVars>>
    /\ UNCHANGED <<storeVars, appVars>>

\* pollEndpoint, lines 338-362: the result of a probe of ep that ended with
\* HTTP status code and transport error err ("" is nil).
pollEndpointResult(ep, code, err) ==
    [name |-> ep,
     status |-> IF err # "" THEN "down" ELSE httpStatusToStatus(code),
     err |-> err]

ProbeEndsStep(w, code, err) ==
    /\ wpc[w] = "probe"
    /\ wres' = [wres EXCEPT ![w] = pollEndpointResult(wep[w], code, err)]
    /\ wpc' = [wpc EXCEPT ![w] = "send"]
    /\ wdeadline' = [wdeadline EXCEPT ![w] = NoTime]
    /\ UNCHANGED <<schedFields, results, wep>>
    /\ UNCHANGED <<loopVars, callerVars, envVars>>
    /\ UNCHANGED <<storeVars, sseVars, pbVars, evalVars, recvVars, startVars>>

ProbeEnds(w, code, err) == ProbeEndsStep(w, code, err) /\ UNCHANGED obsVars

\* Fetch, lines 107-132: the response arrives.
ProbeResponds(w, code) ==
    /\ code \in ResponseCodes
    /\ ProbeEnds(w, code, "")

\* Fetch, lines 85 and 107-112: the endpoint's timeout expires.
ProbeTimesOut(w) ==
    /\ now >= wdeadline[w]
    /\ ProbeEnds(w, 0, "deadline exceeded")

\* Fetch, lines 85 and 107-112: the request's context is a child of the run's
\* context, so the run's cancellation ends the request with an error.
ProbeCancelled(w) ==
    /\ ctxDone
    /\ ProbeEnds(w, 0, "context canceled")

\* pollEndpoints, line 312: s.results <- result.
WorkerSendResultStep(w) ==
    /\ wpc[w] = "send"
    /\ Len(results) < ResultsCap
    /\ results' = Append(results, wres[w])
    /\ wpc' = [wpc EXCEPT ![w] = "recv"]
    /\ wep' = [wep EXCEPT ![w] = ""]
    /\ wres' = [wres EXCEPT ![w] = NoResult]
    /\ UNCHANGED <<schedFields, wdeadline>>
    /\ UNCHANGED <<loopVars, callerVars, envVars>>
    /\ UNCHANGED <<storeVars, sseVars, pbVars, evalVars, recvVars>>

WorkerSendResult(w) == WorkerSendResultStep(w) /\ UNCHANGED <<obsVars, startVars>>

\* WorkerCtxDone looking at the context only when the stream has room.
WorkerCtxDoneOnlyWithRoom(w) ==
    /\ wpc[w] = "send"
    /\ ctxDone
    /\ Len(results) < ResultsCap
    /\ wpc' = [wpc EXCEPT ![w] = "none"]
    /\ wep' = [wep EXCEPT ![w] = ""]
    /\ wres' = [wres EXCEPT ![w] = NoResult]
    /\ UNCHANGED <<schedFields, results, wdeadline>>
    /\ UNCHANGED <<loopVars, callerVars, envVars>>
    /\ UNCHANGED <<storeVars, appVars>>

\* pollEndpoints, lines 313-314: the Done case of the worker's select.
WorkerCtxDone(w) ==
    /\ wpc[w] = "send"
    /\ ctxDone
    /\ wpc' = [wpc EXCEPT ![w] = "none"]
    /\ wep' = [wep EXCEPT ![w] = ""]
    /\ wres' = [wres EXCEPT ![w] = NoResult]
    /\ UNCHANGED <<schedFields, results, wdeadline>>
    /\ UNCHANGED <<loopVars, callerVars, envVars>>
    /\ UNCHANGED <<storeVars, appVars>>

\* ---------------------------------------------------------- the environment
\* The parent context handed to Start is cancelled.
CancelParent ==
    /\ ~parentDone
    /\ parentDone' = TRUE
    /\ UNCHANGED <<schedFields, results, now, readAfterStop>>
    /\ UNCHANGED <<loopVars, workerVars, callerVars>>
    /\ UNCHANGED <<storeVars, appVars>>

\* One second passes while the control loop runs (before and after it the
\* clock is read by nothing); a probe whose deadline is reached ends first.  The
\* ticker of Start, line 218, fires every baseInterval into a channel of
\* capacity 1.
AdvanceWithin(limit) ==
    /\ now < limit
    /\ lpc \notin {"none", "done"}
    /\ \A w \in WorkerSlots : wpc[w] = "probe" => now < wdeadline[w]
    /\ now' = now + 1
    /\ IF tickerNext # NoTime /\ now + 1 = tickerNext
       THEN /\ tickPending' = TRUE
            /\ tickerNext' = tickerNext + baseInterval
       ELSE UNCHANGED <<tickPending, tickerNext>>
    /\ UNCHANGED <<schedFields, results, parentDone, readAfterStop>>
    /\ UNCHANGED <<lpc, loops, due, jobs, jobsClosed>>
    /\ UNCHANGED <<workerVars, callerVars>>
    /\ UNCHANGED <<storeVars, appVars>>

Advance == AdvanceWithin(MaxTime)

\* A consumer of Results() receives one value.
ReadResult ==
    /\ results # <<>>
    /\ results' = Tail(results)
    /\ readAfterStop' = (readAfterStop \/ stopReturned)
    /\ UNCHANGED <<schedFields, parentDone, now>>
    /\ UNCHANGED <<loopVars, workerVars, callerVars>>
    /\ UNCHANGED <<storeVars, appVars>>

\* ------------------------------------------------------------ MemoryStore
\* At most MaxUpdates calls of Update are made.  SubscriberBuffer stands for
\* the capacity of a subscription channel, which Subscribe sets to 100
\* (memory.go, line 68); the model keeps it small and changes nothing else.
MaxUpdates == 2
SubscriberBuffer == 1

Producers == {"p1", "p2"}
Handles == {1, 2}
\* A channel that Subscribe never returned.
UnknownHandle == 0
\* store.StatusResult (store.go, lines 10-32): the name, the status and the
\* error message ("" is nil).
StoreResults ==
    {[name |-> n, status |-> "up", err |-> ""] : n \in Names}
        \cup {[name |-> n, status |-> "down", err |-> "timeout"] : n \in Names}
NoStoreResult == [name |-> "", status |-> "", err |-> ""]

\* NewMemoryStore, lines 26-31.
StoreInit ==
    /\ statuses = {}
    /\ subscribers = {}
    /\ allocated = 0
    /\ queue = [h \in Handles |-> <<>>]
    /\ chClosed = [h \in Handles |-> FALSE]
    /\ panicked = FALSE
    /\ upc = [p \in Producers |-> "idle"]
    /\ ures = [p \in Producers |-> NoStoreResult]
    /\ unot = [p \in Producers |-> {}]
    /\ udrop = [p \in Producers |-> {}]
    /\ updates = 0
    /\ lastApplied = [n \in Names |-> NoStoreResult]
    /\ unsubNoop = FALSE

\* m.subMu is read-locked by the producers inside notifySubscribers.
subMuReaders == {p \in Producers : upc[p] = "notify"}

\* MapAssign adding the entry without replacing the one of the same name.
MapAssignKeepsOld(m, r) == m \cup {r}

\* Update, line 40: m.statuses[result.Name] = result, on a map held as the
\* set of its entries.
MapAssign(m, r) == {e \in m : e.name # r.name} \cup {r}

\* GetAll, lines 50-59: a copy of every entry.
GetAll == statuses

\* Update, lines 39-41: the write under m.mu, as it changes the store.
UpdateLockedWithin(p, r, limit) ==
    /\ upc[p] = "idle"
    /\ updates < limit
    /\ updates' = updates + 1
    /\ statuses' = MapAssign(statuses, r)
    /\ lastApplied' = [lastApplied EXCEPT ![r.name] = r]
    /\ ures' = [ures EXCEPT ![p] = r]
    /\ upc' = [upc EXCEPT ![p] = "rlock"]
    /\ UNCHANGED <<subscribers, allocated, queue, chClosed, panicked, unot,
                   unsubNoop, udrop>>

UpdateLocked(p, r) == UpdateLockedWithin(p, r, MaxUpdates)

\* Update called by a producer that is nothing but a producer.
UpdateStore(p, r) ==
    /\ UpdateLocked(p, r)
    /\ UNCHANGED <<schedVars, appVars>>

\* notifySubscribers, lines 100-103: m.subMu.RLock() and the start of the
\* range over m.subscribers.
NotifyRLock(p) ==
    /\ upc[p] = "rlock"
    /\ upc' = [upc EXCEPT ![p] = "notify"]
    /\ unot' = [unot EXCEPT ![p] = subscribers]
    /\ UNCHANGED <<statuses, subscribers, allocated, queue, chClosed, panicked,
                   ures, updates, lastApplied, unsubNoop>>
    /\ UNCHANGED <<udrop, schedVars, appVars>>

\* The select of lines 104-108 by producer p on channel h: the send when the
\* buffer has room, else the default case; a send on a closed channel panics.
TrySend(p, h) ==
    IF chClosed[h]
    THEN /\ panicked' = TRUE
         /\ UNCHANGED <<queue, udrop>>
    ELSE /\ UNCHANGED panicked
         /\ IF Len(queue[h]) < SubscriberBuffer
            THEN /\ queue' = [queue EXCEPT ![h] = Append(@, ures[p])]
                 /\ UNCHANGED udrop
            ELSE /\ udrop' = [udrop EXCEPT ![p] = @ \cup {h}]
                 /\ UNCHANGED queue

\* NotifySend as a blocking send: it waits for room in the channel.
NotifySendBlocking(p, h) ==
    /\ upc[p] = "notify"
    /\ h \in unot[p]
    /\ Len(queue[h]) < SubscriberBuffer
    /\ unot' = [unot EXCEPT ![p] = @ \ {h}]
    /\ TrySend(p, h)
    /\ UNCHANGED <<statuses, subscribers, allocated, chClosed, upc, ures,
                   updates, lastApplied, unsubNoop>>
    /\ UNCHANGED <<schedVars, appVars>>

\* NotifySend leaving the loop at the first full channel.
NotifySendStopsAtFull(p, h) ==
    /\ upc[p] = "notify"
    /\ h \in unot[p]
    /\ unot' = [unot EXCEPT ![p] =
                   IF Len(queue[h]) < SubscriberBuffer THEN @ \ {h} ELSE {}]
    /\ TrySend(p, h)
    /\ UNCHANGED <<statuses, subscribers, allocated, chClosed, upc, ures,
                   updates, lastApplied, unsubNoop>>
    /\ UNCHANGED <<schedVars, appVars>>

\* notifySubscribers, lines 103-109: one iteration of the range, the select
\* with a default case.
NotifySend(p, h) ==
    /\ upc[p] = "notify"
    /\ h \in unot[p]
    /\ unot' = [unot EXCEPT ![p] = @ \ {h}]
    /\ TrySend(p, h)
    /\ UNCHANGED <<statuses, subscribers, allocated, chClosed, upc, ures,
                   updates, lastApplied, unsubNoop>>
    /\ UNCHANGED <<schedVars, appVars>>

\* notifySubscribers, line 101 (deferred RUnlock), and the return of Update.
NotifyDone(p) ==
    /\ upc[p] = "notify"
    /\ unot[p] = {}
    /\ upc' = [upc EXCEPT ![p] = "idle"]
    /\ ures' = [ures EXCEPT ![p] = NoStoreResult]
    /\ udrop' = [udrop EXCEPT ![p] = {}]
    /\ UNCHANGED <<statuses, subscribers, allocated, queue, chClosed, panicked,
                   unot, updates, lastApplied, unsubNoop>>
    /\ UNCHANGED <<schedVars, appVars>>

\* Subscribe, lines 67-75, under m.subMu.Lock(), as it changes the store:
\* the channel it makes and returns is the next unused handle.
SubscribeLocked ==
    /\ subMuReaders = {}
    /\ allocated + 1 \in Handles
    /\ allocated' = allocated + 1
    /\ subscribers' = subscribers \cup {allocated + 1}
    /\ UNCHANGED <<statuses, queue, chClosed, panicked, upc, ures, unot,
                   updates, lastApplied, unsubNoop, udrop>>

\* Subscribe called by a subscriber that is nothing but a subscriber.
Subscribe ==
    /\ SubscribeLocked
    /\ UNCHANGED <<schedVars, appVars>>

\* Unsubscribe closing the channel and leaving it in m.subscribers.
UnsubscribeKeepsEntry(h) ==
    /\ subMuReaders = {}
    /\ h \in Handles
    /\ h <= allocated
    /\ IF chClosed[h]
       THEN panicked' = TRUE /\ UNCHANGED chClosed
       ELSE chClosed' = [chClosed EXCEPT ![h] = TRUE] /\ UNCHANGED panicked
    /\ UNCHANGED <<statuses, subscribers, allocated, queue, upc, ures, unot,
                   updates, lastApplied, unsubNoop>>
    /\ UNCHANGED <<udrop, schedVars, appVars>>

\* Unsubscribe, lines 81-93, under m.subMu.Lock(), as it changes the store:
\* a close of a closed channel panics.
UnsubscribeLocked(h) ==
    /\ subMuReaders = {}
    /\ IF h \in subscribers
       THEN /\ subscribers' = subscribers \ {h}
            /\ IF chClosed[h]
               THEN panicked' = TRUE /\ UNCHANGED chClosed
               ELSE chClosed' = [chClosed EXCEPT ![h] = TRUE] /\ UNCHANGED panicked
            /\ UNCHANGED unsubNoop
       ELSE /\ unsubNoop' = TRUE
            /\ UNCHANGED <<subscribers, chClosed, panicked>>
    /\ UNCHANGED <<statuses, allocated, queue, upc, ures, unot, updates,
                   lastApplied, udrop>>

\* Unsubscribe called by a holder of the channel that is nothing else.
Unsubscribe(h) ==
    /\ UnsubscribeLocked(h)
    /\ UNCHANGED <<schedVars, appVars>>

\* The holder of a subscription channel receives one value from it.
Receive(h) ==
    /\ queue[h] # <<>>
    /\ queue' = [queue EXCEPT ![h] = Tail(@)]
    /\ UNCHANGED <<statuses, subscribers, allocated, chClosed, panicked, upc,
                   ures, unot, updates, lastApplied, unsubNoop>>
    /\ UNCHANGED <<udrop, schedVars, appVars>>

StoreNext ==
    \/ \E p \in Producers : \E r \in StoreResults : UpdateStore(p, r)
    \/ \E p \in Producers : NotifyRLock(p)
    \/ \E p \in Producers : \E h \in Handles : NotifySend(p, h)
    \/ \E p \in Producers : NotifyDone(p)
    \/ Subscribe
    \/ \E h \in Handles \cup {UnknownHandle} : Unsubscribe(h)
    \/ \E h \in Handles : Receive(h)

\* ------------------------------------------------- streaming delivery
\* Server.handleSSE (the server package's source, kept in
\* cmd/pulseboard/validate_test.go of this tree): one goroutine per
\* connection.  hwd tells whether the connection's ResponseWriter supports
\* SetWriteDeadline (a connection of net/http does, a wrapper or a recorder
\* need not).  Connections touch each other through the store only, and the
\* model follows one of them.
Conns == {"k1"}

\* No connection yet; d tells which writers support write deadlines.
SSEInitWith(d) ==
    /\ hpc = [k \in Conns |-> "idle"]
    /\ hch = [k \in Conns |-> UnknownHandle]
    /\ hgot = [k \in Conns |-> {}]
    /\ hsnap = [k \in Conns |-> {}]
    /\ hcur = [k \in Conns |-> NoStoreResult]
    /\ hdl = [k \in Conns |-> TRUE]
    /\ hwd = d
    /\ hwritten = [k \in Conns |-> <<>>]
    /\ hfail = [k \in Conns |-> FALSE]
    /\ reqDone = [k \in Conns |-> FALSE]
    /\ serverDone = FALSE

SSEInit == SSEInitWith([k \in Conns |-> TRUE])

\* r.Context() is derived from the server context through BaseContext: it is
\* done on a client disconnect and on server shutdown.
ReqCtxDone(k) == reqDone[k] \/ serverDone

\* writeAndFlush, lines 367-373: SetWriteDeadline is tried while
\* deadlinesSupported holds, and its failure clears the flag.
SetWriteDeadline(k) ==
    hdl' = [hdl EXCEPT ![k] = @ /\ hwd[k]]

\* The write in progress has a deadline.
DeadlineArmed(k) == hdl[k] /\ hwd[k]

InWrite(k) == hpc[k] \in {"snapWrite", "loopWrite"}

\* handleSSE, lines 391-392: ch := s.store.Subscribe().
SSESubscribe(k) ==
    /\ hpc[k] = "idle"
    /\ SubscribeLocked
    /\ hch' = [hch EXCEPT ![k] = allocated + 1]
    /\ hpc' = [hpc EXCEPT ![k] = "getall"]
    /\ UNCHANGED <<hwd, hgot, hsnap, hcur, hdl, hwritten, hfail, reqDone,
                   serverDone>>
    /\ UNCHANGED <<schedVars, pbVars, evalVars, obsVars, recvVars, startVars>>

\* handleSSE, line 395: s.store.GetAll(), the slice the range runs over.
SSEGetAll(k) ==
    /\ hpc[k] = "getall"
    /\ hgot' = [hgot EXCEPT ![k] = GetAll]
    /\ hsnap' = [hsnap EXCEPT ![k] = GetAll]
    /\ hpc' = [hpc EXCEPT ![k] = "snapshot"]
    /\ UNCHANGED <<hwd, hch, hcur, hdl, hwritten, hfail, reqDone, serverDone>>
    /\ UNCHANGED <<schedVars, storeVars, pbVars, evalVars, obsVars, recvVars, startVars>>

\* handleSSE, lines 395-400: the next status of the range is marshalled and
\* handed to writeAndFlush (the slice is in the map's iteration order).
SSESnapshotWrite(k) ==
    /\ hpc[k] = "snapshot"
    /\ \E e \in hsnap[k] :
          /\ hcur' = [hcur EXCEPT ![k] = e]
          /\ hsnap' = [hsnap EXCEPT ![k] = @ \ {e}]
    /\ SetWriteDeadline(k)
    /\ hpc' = [hpc EXCEPT ![k] = "snapWrite"]
    /\ UNCHANGED <<hwd, hch, hgot, hwritten, hfail, reqDone, serverDone>>
    /\ UNCHANGED <<schedVars, storeVars, pbVars, evalVars, obsVars, recvVars, startVars>>

\* SSESnapshotDone leaving the range before its end.
SSESnapshotDoneEarly(k) ==
    /\ hpc[k] = "snapshot"
    /\ hpc' = [hpc EXCEPT ![k] = "select"]
    /\ UNCHANGED <<hwd, hch, hgot, hsnap, hcur, hdl, hwritten, hfail, reqDone,
                   serverDone>>
    /\ UNCHANGED <<schedVars, storeVars, pbVars, evalVars, obsVars, recvVars, startVars>>

\* handleSSE, lines 395-403: the range is over.
SSESnapshotDone(k) ==
    /\ hpc[k] = "snapshot"
    /\ hsnap[k] = {}
    /\ hpc' = [hpc EXCEPT ![k] = "select"]
    /\ UNCHANGED <<hwd, hch, hgot, hsnap, hcur, hdl, hwritten, hfail, reqDone,
                   serverDone>>
    /\ UNCHANGED <<schedVars, storeVars, pbVars, evalVars, obsVars, recvVars, startVars>>

\* handleSSE, lines 408-415: case result, ok := <-ch with a value; it is
\* marshalled and handed to writeAndFlush.
SSERecv(k) ==
    /\ hpc[k] = "select"
    /\ queue[hch[k]] # <<>>
    /\ hcur' = [hcur EXCEPT ![k] = Head(queue[hch[k]])]
    /\ queue' = [queue EXCEPT ![hch[k]] = Tail(@)]
    /\ SetWriteDeadline(k)
    /\ hpc' = [hpc EXCEPT ![k] = "loopWrite"]
    /\ UNCHANGED <<hwd, hch, hgot, hsnap, hwritten, hfail, reqDone, serverDone>>
    /\ UNCHANGED <<statuses, subscribers, allocated, chClosed, panicked, upc,
                   ures, unot, udrop, updates, lastApplied, unsubNoop>>
    /\ UNCHANGED <<schedVars, pbVars, evalVars, obsVars, recvVars, startVars>>

\* handleSSE, lines 408-411: case result, ok := <-ch with ok false, the
\* channel closed and drained.
SSEChClosed(k) ==
    /\ hpc[k] = "select"
    /\ queue[hch[k]] = <<>>
    /\ chClosed[hch[k]]
    /\ hpc' = [hpc EXCEPT ![k] = "unsub"]
    /\ UNCHANGED <<hwd, hch, hgot, hsnap, hcur, hdl, hwritten, hfail, reqDone,
                   serverDone>>
    /\ UNCHANGED <<schedVars, storeVars, pbVars, evalVars, obsVars, recvVars, startVars>>

\* SSECtxDone that leaves the select only once the channel is closed.
SSECtxDoneIgnored(k) ==
    /\ hpc[k] = "select"
    /\ ReqCtxDone(k)
    /\ chClosed[hch[k]]
    /\ hpc' = [hpc EXCEPT ![k] = "unsub"]
    /\ UNCHANGED <<hwd, hch, hgot, hsnap, hcur, hdl, hwritten, hfail, reqDone,
                   serverDone>>
    /\ UNCHANGED <<schedVars, storeVars, pbVars, evalVars, obsVars, recvVars, startVars>>

\* handleSSE, lines 420-424: case <-r.Context().Done().
SSECtxDone(k) ==
    /\ hpc[k] = "select"
    /\ ReqCtxDone(k)
    /\ hpc' = [hpc EXCEPT ![k] = "unsub"]
    /\ UNCHANGED <<hwd, hch, hgot, hsnap, hcur, hdl, hwritten, hfail, reqDone,
                   serverDone>>
    /\ UNCHANGED <<schedVars, storeVars, pbVars, evalVars, obsVars, recvVars, startVars>>

\* writeAndFlush, lines 375-380: Fprintf and Flush both return nil; the
\* event is on the wire.
writeAndFlushOK(k) ==
    /\ InWrite(k)
    /\ hwritten' = [hwritten EXCEPT ![k] = Append(@, hcur[k])]
    /\ hcur' = [hcur EXCEPT ![k] = NoStoreResult]
    /\ hpc' = [hpc EXCEPT ![k] =
                  IF hpc[k] = "snapWrite" THEN "snapshot" ELSE "select"]
    /\ UNCHANGED <<hwd, hch, hgot, hsnap, hdl, hfail, reqDone, serverDone>>
    /\ UNCHANGED <<schedVars, storeVars, pbVars, evalVars, obsVars, recvVars, startVars>>

\* writeAndFlushFails going back to write the same event again.
writeAndFlushRetries(k) ==
    /\ InWrite(k)
    /\ hfail' = [hfail EXCEPT ![k] = TRUE]
    /\ UNCHANGED <<hwd, hpc, hch, hgot, hsnap, hcur, hdl, hwritten, reqDone,
                   serverDone>>
    /\ UNCHANGED <<schedVars, storeVars, pbVars, evalVars, obsVars, recvVars, startVars>>

\* writeAndFlush, lines 375-380, returns an error (a broken connection, or
\* the write deadline passed), and handleSSE returns: lines 399-401, 416-418.
writeAndFlushFails(k) ==
    /\ InWrite(k)
    /\ hfail' = [hfail EXCEPT ![k] = TRUE]
    /\ hcur' = [hcur EXCEPT ![k] = NoStoreResult]
    /\ hpc' = [hpc EXCEPT ![k] = "unsub"]
    /\ UNCHANGED <<hwd, hch, hgot, hsnap, hdl, hwritten, reqDone, serverDone>>
    /\ UNCHANGED <<schedVars, storeVars, pbVars, evalVars, obsVars, recvVars, startVars>>

\* handleSSE, line 392: the deferred s.store.Unsubscribe(ch).
SSEUnsubscribe(k) ==
    /\ hpc[k] = "unsub"
    /\ UnsubscribeLocked(hch[k])
    /\ hpc' = [hpc EXCEPT ![k] = "done"]
    /\ UNCHANGED <<hwd, hch, hgot, hsnap, hcur, hdl, hwritten, hfail, reqDone,
                   serverDone>>
    /\ UNCHANGED <<schedVars, pbVars, evalVars, obsVars, recvVars, startVars>>

\* The client of an open connection goes away: its request context is
\* cancelled.
ClientDisconnect(k) ==
    /\ hpc[k] \notin {"idle", "done"}
    /\ ~ReqCtxDone(k)
    /\ reqDone' = [reqDone EXCEPT ![k] = TRUE]
    /\ UNCHANGED <<hwd, hpc, hch, hgot, hsnap, hcur, hdl, hwritten, hfail,
                   serverDone>>
    /\ UNCHANGED <<schedVars, storeVars, pbVars, evalVars, obsVars, recvVars, startVars>>

\* Server.Start, lines 270-290: the context given to Start is cancelled, and
\* with it every request context.
ServerShutdown ==
    /\ ~serverDone
    /\ serverDone' = TRUE
    /\ UNCHANGED <<hwd, hpc, hch, hgot, hsnap, hcur, hdl, hwritten, hfail, reqDone>>
    /\ UNCHANGED <<schedVars, storeVars, pbVars, evalVars, obsVars, recvVars, startVars>>

\* The one producer of a running PulseBoard (the result consumer), the
\* connections, and the store closing a subscription from outside the handler.
TheProducer == "p1"
\* The results it applies: two for endpoint a, one for endpoint b.
SSEResults == {r \in StoreResults : r.name = "a" \/ r.status = "up"}

SSENext ==
    \/ \E r \in SSEResults : UpdateStore(TheProducer, r)
    \/ NotifyRLock(TheProducer)
    \/ \E h \in Handles : NotifySend(TheProducer, h)
    \/ NotifyDone(TheProducer)
    \/ \E k \in Conns : Unsubscribe(hch[k])
    \/ \E k \in Conns : SSESubscribe(k)
    \/ \E k \in Conns : SSEGetAll(k)
    \/ \E k \in Conns : SSESnapshotWrite(k)
    \/ \E k \in Conns : SSESnapshotDone(k)
    \/ \E k \in Conns : SSERecv(k)
    \/ \E k \in Conns : SSEChClosed(k)
    \/ \E k \in Conns : SSECtxDone(k)
    \/ \E k \in Conns : writeAndFlushOK(k)
    \/ \E k \in Conns : writeAndFlushFails(k)
    \/ \E k \in Conns : SSEUnsubscribe(k)
    \/ \E k \in Conns : ClientDisconnect(k)
    \/ ServerShutdown

\* ------------------------------------------------- PulseBoard.Start
\* pulseboard.go (src/unnamed/part_002), Start: the scheduler is started
\* once and stopped once, and one goroutine ranges over scheduler.Results().
\* pb.statusCallbacks, in registration order.
StatusCallbacks == <<"cb1", "cb2">>
TheCaller == "c1"

PBInit ==
    /\ kpc = "none"
    /\ kres = NoResult
    /\ kcb = 1
    /\ cbrun = {}
    /\ kapplied = FALSE

\* pollerResultToStoreResult, lines 1506-1522: name and status are copied,
\* the error becomes its message (nil stays nil, held as "").
pollerResultToStoreResult(pr) ==
    [name |-> pr.name, status |-> pr.status, err |-> pr.err]

\* Start, lines 1390-1402: the context is live, scheduler.Start(ctx).
PBSchedulerStart ==
    /\ calls = 0
    /\ ~parentDone
    /\ StartLocked(TheCaller)

\* Start, lines 1404-1408: wg.Add(1) and go func() after scheduler.Start
\* has returned.
ConsumerSpawn ==
    /\ kpc = "none"
    /\ calls >= 1 /\ cpc[TheCaller] = "idle"
    /\ kpc' = "range"
    /\ UNCHANGED <<kres, kcb, cbrun, kapplied>>
    /\ UNCHANGED <<schedVars, storeVars, sseVars, evalVars, obsVars, recvVars, startVars>>

\* Start, lines 1437-1440 and 1449-1450: cleanup after <-ctx.Done(), its
\* call of scheduler.Stop().
PBCleanupStop ==
    /\ parentDone
    /\ kpc # "none"
    /\ ~stopped
    /\ StopLocked(TheCaller)

\* Start, line 1409: the range over scheduler.Results() yields a result.
\* ConsumerTakeWithin on a stream that yields its newest value first.
ConsumerTakeNewestWithin(limit) ==
    /\ kpc = "range"
    /\ results # <<>>
    /\ updates < limit
    /\ kres' = results[Len(results)]
    /\ results' = SubSeq(results, 1, Len(results) - 1)
    /\ readAfterStop' = (readAfterStop \/ stopReturned)
    /\ kpc' = "update"
    /\ kcb' = 1
    /\ kapplied' = FALSE
    /\ UNCHANGED cbrun
    /\ UNCHANGED <<schedFields, parentDone, now>>
    /\ UNCHANGED <<loopVars, workerVars, callerVars>>
    /\ UNCHANGED <<storeVars, sseVars, evalVars, startVars>>

ConsumerTakeWithin(limit) ==
    /\ kpc = "range"
    /\ results # <<>>
    /\ updates < limit
    /\ kres' = Head(results)
    /\ results' = Tail(results)
    /\ readAfterStop' = (readAfterStop \/ stopReturned)
    /\ kpc' = "update"
    /\ kcb' = 1
    /\ kapplied' = FALSE
    /\ UNCHANGED cbrun
    /\ UNCHANGED <<schedFields, parentDone, now>>
    /\ UNCHANGED <<loopVars, workerVars, callerVars>>
    /\ UNCHANGED <<storeVars, sseVars, evalVars, startVars>>

ConsumerTakeStep == ConsumerTakeWithin(MaxUpdates) /\ UNCHANGED obsVars

ConsumerTake == ConsumerTakeStep /\ UNCHANGED recvVars

\* Start, line 1409: the stream is closed and drained; the deferred
\* wg.Done().
ConsumerExit ==
    /\ kpc = "range"
    /\ results = <<>> /\ resultsClosed
    /\ kpc' = "done"
    /\ UNCHANGED <<kres, kcb, cbrun, kapplied>>
    /\ UNCHANGED <<schedVars, storeVars, sseVars, evalVars, obsVars, recvVars, startVars>>

\* Start, lines 1411-1412: statusStore.Update(storeResult), its write; the
\* notification that follows is notifySubscribers by this producer.
ConsumerUpdateWithin(limit) ==
    /\ kpc = "update"
    /\ UpdateLockedWithin(TheProducer, pollerResultToStoreResult(kres), limit)
    /\ kpc' = "notify"
    /\ kapplied' = TRUE
    /\ UNCHANGED <<kres, kcb, cbrun>>
    /\ UNCHANGED <<schedVars, sseVars, evalVars, recvVars, startVars>>

ConsumerUpdate == ConsumerUpdateWithin(MaxUpdates) /\ UNCHANGED obsVars

\* Start, lines 1412-1415: Update has returned.
ConsumerUpdateReturnsStep ==
    /\ kpc = "notify"
    /\ upc[TheProducer] = "idle"
    /\ kpc' = "callbacks"
    /\ UNCHANGED <<kres, kcb, cbrun, kapplied>>
    /\ UNCHANGED <<schedVars, storeVars, sseVars, evalVars, obsVars, startVars>>

ConsumerUpdateReturns == ConsumerUpdateReturnsStep /\ UNCHANGED recvVars

\* CallbackInvoke handing the callback to a goroutine of its own.
CallbackInvokeAsync ==
    /\ kpc = "callbacks"
    /\ kcb <= Len(StatusCallbacks)
    /\ cbrun' = cbrun \cup {kcb}
    /\ kcb' = kcb + 1
    /\ UNCHANGED <<kpc, kres, kapplied>>
    /\ UNCHANGED <<schedVars, storeVars, sseVars, evalVars, obsVars, recvVars, startVars>>

\* ConsumerUpdate run after the callbacks instead of before them.
CallbackInvokeBeforeUpdate ==
    /\ kpc \in {"update", "callbacks"}
    /\ kcb <= Len(StatusCallbacks)
    /\ cbrun' = cbrun \cup {kcb}
    /\ kpc' = "incb"
    /\ UNCHANGED <<kres, kcb, kapplied>>
    /\ UNCHANGED <<schedVars, storeVars, sseVars, evalVars, obsVars, recvVars, startVars>>

\* Start, lines 1417-1419, and invokeCallbackSafe, line 1560: cb(result)
\* is called for the next callback of the slice.
CallbackInvokeStep ==
    /\ kpc = "callbacks"
    /\ kcb <= Len(StatusCallbacks)
    /\ cbrun' = cbrun \cup {kcb}
    /\ kpc' = "incb"
    /\ UNCHANGED <<kres, kcb, kapplied>>
    /\ UNCHANGED <<schedVars, storeVars, sseVars, evalVars, obsVars, startVars>>

CallbackInvoke == CallbackInvokeStep /\ UNCHANGED recvVars

\* invokeCallbackSafe, lines 1550-1560: the callback returns.
CallbackReturns ==
    /\ kpc = "incb"
    /\ cbrun' = cbrun \ {kcb}
    /\ kcb' = kcb + 1
    /\ kpc' = "callbacks"
    /\ UNCHANGED <<kres, kapplied>>
    /\ UNCHANGED <<schedVars, storeVars, sseVars, evalVars, obsVars, recvVars, startVars>>

\* Start, lines 1417-1433: the callbacks are over, the result is logged,
\* and the range goes on.
ConsumerNextResultStep ==
    /\ kpc = "callbacks"
    /\ kcb > Len(StatusCallbacks)
    /\ kpc' = "range"
    /\ UNCHANGED <<kres, kcb, cbrun, kapplied>>
    /\ UNCHANGED <<schedVars, storeVars, sseVars, evalVars, obsVars, recvVars>>

ConsumerNextResult == ConsumerNextResultStep /\ UNCHANGED startVars

PBNext ==
    \/ PBSchedulerStart
    \/ StartSpawn(TheCaller)
    \/ PBCleanupStop
    \/ StopWait(TheCaller)
    \/ StopClientClose(TheCaller)
    \/ StopCloseOnce(TheCaller)
    \/ LoopImmediate
    \/ LoopTick
    \/ LoopCtxDone
    \/ LoopCloseOnce
    \/ LoopWgDone
    \/ DispatchJob
    \/ DispatchCtxDone
    \/ DispatchClose
    \/ LoopWaitWorkers
    \/ \E w \in WorkerSlots : WorkerTakeJob(w)
    \/ \E w \in WorkerSlots : WorkerJobsClosed(w)
    \/ \E w \in WorkerSlots : \E code \in ResponseCodes : ProbeResponds(w, code)
    \/ \E w \in WorkerSlots : ProbeTimesOut(w)
    \/ \E w \in WorkerSlots : ProbeCancelled(w)
    \/ \E w \in WorkerSlots : WorkerSendResult(w)
    \/ \E w \in WorkerSlots : WorkerCtxDone(w)
    \/ CancelParent
    \/ Advance
    \/ ConsumerSpawn
    \/ ConsumerTake
    \/ ConsumerExit
    \/ ConsumerUpdate
    \/ NotifyRLock(TheProducer)
    \/ \E h \in Handles : NotifySend(TheProducer, h)
    \/ NotifyDone(TheProducer)
    \/ ConsumerUpdateReturns
    \/ CallbackInvoke
    \/ CallbackReturns
    \/ ConsumerNextResult
    \/ Subscribe

\* ------------------------------------------------- the order of results
\* The results the numbered consumer applies.
MaxApplied == 3
\* What the probed endpoints answer: healthy or not.
OrderCodes == {200, 500}

RemoveAt(s, i) == SubSeq(s, 1, i - 1) \o SubSeq(s, i + 1, Len(s))

\* WorkerTakeJob, numbered: the probe is the next of its endpoint.
WorkerTakeJobNumbered(w) ==
    /\ WorkerTakeJobStep(w)
    /\ pseq' = [pseq EXCEPT ![Head(jobs)] = @ + 1]
    /\ wseq' = [wseq EXCEPT ![w] = pseq[Head(jobs)] + 1]
    /\ UNCHANGED <<firstDispatch, pstart, pdur, rseq, kseq, sseq>>

\* WorkerSendResult, numbered: the result carries the number of its probe.
WorkerSendResultNumbered(w) ==
    /\ WorkerSendResultStep(w)
    /\ rseq' = Append(rseq, wseq[w])
    /\ wseq' = [wseq EXCEPT ![w] = 0]
    /\ UNCHANGED <<firstDispatch, pstart, pdur, pseq, kseq, sseq>>
    /\ UNCHANGED startVars

\* ConsumerTake, numbered: the number leaves the stream with its result.
ConsumerTakeNumbered ==
    /\ ConsumerTakeWithin(MaxApplied)
    /\ LET i == CHOOSE j \in 1..Len(results) :
                    results' = RemoveAt(results, j) /\ kres' = results[j]
       IN  kseq' = rseq[i] /\ rseq' = RemoveAt(rseq, i)
    /\ UNCHANGED <<firstDispatch, pstart, pdur, pseq, wseq, sseq>>
    /\ UNCHANGED recvVars

\* ConsumerUpdate, numbered: the Store holds the result of that probe.
ConsumerUpdateNumbered ==
    /\ ConsumerUpdateWithin(MaxApplied)
    /\ sseq' = [sseq EXCEPT ![kres.name] = kseq]
    /\ UNCHANGED <<firstDispatch, pstart, pdur, pseq, wseq, rseq, kseq>>

OrderNext ==
    \/ PBSchedulerStart
    \/ StartSpawn(TheCaller)
    \/ LoopImmediate
    \/ LoopTick
    \/ DispatchJob
    \/ DispatchClose
    \/ LoopWaitWorkers
    \/ \E w \in WorkerSlots : WorkerTakeJobNumbered(w)
    \/ \E w \in WorkerSlots : WorkerJobsClosed(w)
    \/ \E w \in WorkerSlots : \E code \in OrderCodes : ProbeEnds(w, code, "")
    \/ \E w \in WorkerSlots : ProbeTimesOut(w)
    \/ \E w \in WorkerSlots : WorkerSendResultNumbered(w)
    \/ Advance
    \/ ConsumerSpawn
    \/ ConsumerTakeNumbered
    \/ ConsumerUpdateNumbered
    \/ NotifyRLock(TheProducer)
    \/ NotifyDone(TheProducer)
    \/ ConsumerUpdateReturns
    \/ CallbackInvoke
    \/ CallbackReturns
    \/ ConsumerNextResult

\* ------------------------------------------- callbacks and shared fields
\* A map and a byte slice are references: a struct copy shares them.  Each
\* is a heap cell holding "orig" (as it was made) or the name of who wrote
\* it last; "free" is a cell not yet made.
NoCell == 0
Cells == 1..(Len(EndpointList) + 2 * MaxUpdates)
Receivers == {"g1", "g2"}
CallbackIds == {StatusCallbacks[i] : i \in 1..Len(StatusCallbacks)}
NoPublic == [labels |-> NoCell, raw |-> NoCell]
NothingSeen == [labels |-> "", raw |-> ""]

\* toPollerEndpoints, line 1473: one label map per endpoint, made once.
EpLabels(e) == CHOOSE i \in 1..Len(EndpointList) : EndpointList[i] = e

RecvInit ==
    /\ kdone = <<>>
    /\ klog = {}
    /\ heap = [c \in Cells |-> IF c <= Len(EndpointList) THEN "orig" ELSE "free"]
    /\ kpub = NoPublic
    /\ kseen = NothingSeen
    /\ held = [g \in Receivers |-> {}]

\* pollEndpoint, scheduler.go line 341: Labels: ep.Labels, the endpoint's
\* map itself in every result of that endpoint.
pollEndpointLabels(e) == EpLabels(e)

\* pollerResultToStoreResult, line 1517: Labels: pr.Labels, the same map.
pollerResultToStoreResultLabels(cell) == cell

\* MemoryStore.Update (memory.go, line 41) keeps the struct it is given,
\* GetAll (lines 54-56) appends a copy of the struct and notifySubscribers
\* (lines 101-107) sends one: the Labels field of each is the map of the
\* stored struct.
EntryLabels(n) == pollerResultToStoreResultLabels(pollEndpointLabels(n))
GetAllLabels(n) == EntryLabels(n)
SubscriptionLabels(n) == EntryLabels(n)

\* copyMap (endpoint.go, lines 137-146) and copyBytes (lines 1541-1546): a
\* new cell with the contents of the old one.
NewCell(h) == CHOOSE c \in Cells : h[c] = "free" /\ \A d \in Cells : h[d] = "free" => c <= d

\* pollerResultToPublicResult, lines 1526-1538: the label map and the raw
\* response (resp.Body of this probe, which nothing else holds) are copied.
pollerResultToPublicResult(pr, h) ==
    LET l  == NewCell(h)
        h1 == [h EXCEPT ![l] = h[pollEndpointLabels(pr.name)]]
        r  == NewCell(h1)
    IN  [pub |-> [labels |-> l, raw |-> r], heap |-> [h1 EXCEPT ![r] = "orig"]]

\* The scheduler as its consumer sees it: a worker sends the result of a
\* probe of some endpoint (pollEndpoints, line 315; pollEndpoint, lines
\* 335-363) to the result stream.
StreamDelivers(e) ==
    /\ started /\ ~resultsClosed
    /\ Len(results) < ResultsCap
    /\ results' = Append(results, pollEndpointResult(e, 200, ""))
    /\ UNCHANGED <<schedFields, loopVars, workerVars, callerVars, envVars>>
    /\ UNCHANGED <<storeVars, appVars>>

\* Start, line 1409, for a new result: no callback has been invoked for it
\* and there is no public result of it yet; the consumer has dropped the
\* public result of the one before, whose cells nothing of the program
\* reads again.
ConsumerTakeObserved ==
    /\ ConsumerTakeStep
    /\ kdone' = <<>>
    /\ kpub' = NoPublic
    /\ heap' = [c \in Cells |->
                   IF c \in {kpub.labels, kpub.raw} THEN "free" ELSE heap[c]]
    /\ UNCHANGED <<klog, kseen, held>>

\* Start, lines 1415-1416: publicResult is made once, before the loop over
\* the callbacks.
ConsumerUpdateReturnsCopying ==
    /\ ConsumerUpdateReturnsStep
    /\ LET made == pollerResultToPublicResult(kres, heap)
       IN  kpub' = made.pub /\ heap' = made.heap
    /\ UNCHANGED <<kdone, klog, kseen, held>>

\* Start, lines 1417-1419: cb(publicResult), the struct passed by value
\* with the cells of publicResult; the callback finds what they hold.
CallbackInvokeObserved ==
    /\ CallbackInvokeStep
    /\ kdone' = Append(kdone, kcb)
    /\ kseen' = [labels |-> heap[kpub.labels], raw |-> heap[kpub.raw]]
    /\ UNCHANGED <<klog, heap, kpub, held>>

\* The running callback writes to the label map or to the raw response of
\* the result it was given.
CallbackMutates(f) ==
    /\ kpc = "incb"
    /\ heap[kpub[f]] # StatusCallbacks[kcb]
    /\ heap' = [heap EXCEPT ![kpub[f]] = StatusCallbacks[kcb]]
    /\ UNCHANGED <<kdone, klog, kpub, kseen, held>>
    /\ UNCHANGED <<schedVars, storeVars, sseVars, pbVars, evalVars, obsVars, startVars>>

\* CallbackPanics with the panic leaving the loop over the callbacks.
CallbackPanicsEndsLoop ==
    /\ kpc = "incb"
    /\ klog' = klog \cup {[cb |-> kcb, endpoint |-> kres.name]}
    /\ cbrun' = cbrun \ {kcb}
    /\ kcb' = Len(StatusCallbacks) + 1
    /\ kpc' = "callbacks"
    /\ UNCHANGED <<kres, kapplied>>
    /\ UNCHANGED <<kdone, heap, kpub, kseen, held>>
    /\ UNCHANGED <<schedVars, storeVars, sseVars, evalVars, obsVars, startVars>>

\* invokeCallbackSafe, lines 1550-1560: the callback panics; the deferred
\* recover logs "status callback panicked" with the endpoint, and
\* invokeCallbackSafe returns to the loop over the callbacks.
CallbackPanics ==
    /\ kpc = "incb"
    /\ klog' = klog \cup {[cb |-> kcb, endpoint |-> kres.name]}
    /\ cbrun' = cbrun \ {kcb}
    /\ kcb' = kcb + 1
    /\ kpc' = "callbacks"
    /\ UNCHANGED <<kres, kapplied>>
    /\ UNCHANGED <<kdone, heap, kpub, kseen, held>>
    /\ UNCHANGED <<schedVars, storeVars, sseVars, evalVars, obsVars, startVars>>

\* A caller of GetAll (memory.go, lines 50-59) keeps the entries returned.
ReceiverGetAll(g) ==
    /\ GetAll # {}
    /\ held[g] = {}
    /\ held' = [held EXCEPT ![g] = {GetAllLabels(e.name) : e \in GetAll}]
    /\ UNCHANGED <<kdone, klog, heap, kpub, kseen>>
    /\ UNCHANGED <<schedVars, storeVars, sseVars, pbVars, evalVars, obsVars, startVars>>

\* The holder of subscription channel h receives a result from it and
\* keeps it.
ReceiverRecv(g, h) ==
    /\ queue[h] # <<>>
    /\ queue' = [queue EXCEPT ![h] = Tail(@)]
    /\ held' = [held EXCEPT ![g] = @ \cup {SubscriptionLabels(Head(queue[h]).name)}]
    /\ UNCHANGED <<statuses, subscribers, allocated, chClosed, panicked, upc,
                   ures, unot, updates, lastApplied, unsubNoop, udrop>>
    /\ UNCHANGED <<kdone, klog, heap, kpub, kseen>>
    /\ UNCHANGED <<schedVars, sseVars, pbVars, evalVars, obsVars, startVars>>

\* A receiver writes to the label map of a result it holds.
ReceiverMutates(g, c) ==
    /\ c \in held[g]
    /\ heap[c] # g
    /\ heap' = [heap EXCEPT ![c] = g]
    /\ UNCHANGED <<kdone, klog, kpub, kseen, held>>
    /\ UNCHANGED <<schedVars, storeVars, sseVars, pbVars, evalVars, obsVars, startVars>>

\* Subscribe by the one streaming client there is.
SubscribeOnce ==
    /\ allocated = 0
    /\ Subscribe

\* The streaming client is a receiver, and the channel Subscribe gave it.
TheSubscriber == "g2"
TheSubscription == 1

\* The consumer between the result stream and the store.
ConsumerSteps ==
    \/ PBSchedulerStart
    \/ StartSpawn(TheCaller)
    \/ ConsumerSpawn
    \/ \E e \in Names : StreamDelivers(e)
    \/ ConsumerTakeObserved
    \/ ConsumerUpdate
    \/ NotifyRLock(TheProducer)
    \/ \E h \in Handles : NotifySend(TheProducer, h)
    \/ NotifyDone(TheProducer)
    \/ ConsumerUpdateReturnsCopying
    \/ CallbackInvokeObserved
    \/ CallbackReturns
    \/ ConsumerNextResult
    \/ SubscribeOnce
    \/ ReceiverRecv(TheSubscriber, TheSubscription)

CallbackNext ==
    \/ ConsumerSteps
    \/ \E f \in {"labels", "raw"} : CallbackMutates(f)
    \/ CallbackPanics

ReceiverNext ==
    \/ ConsumerSteps
    \/ \E g \in Receivers : ReceiverGetAll(g)
    \/ \E g \in Receivers : \E c \in Cells : ReceiverMutates(g, c)

\* -------------------------------------- PulseBoard.Start and its caller
StartInit ==
    /\ ppc = "entry"
    /\ pret = "none"
    /\ srv = "none"
    /\ spc = "none"
    /\ nsent = 0
    /\ ndone = 0

\* Start, lines 1389-1392: the check of ctx.Err() on entry.
PBEntryCheck ==
    /\ ppc = "entry"
    /\ IF parentDone
       THEN ppc' = "returned" /\ pret' = "nil"
       ELSE ppc' = "running" /\ UNCHANGED pret
    /\ UNCHANGED <<srv, spc, nsent, ndone>>
    /\ UNCHANGED <<schedVars, storeVars, sseVars, pbVars, evalVars, obsVars, recvVars>>

\* Start, lines 1394-1402: NewScheduler and scheduler.Start(ctx), whatever
\* has become of ctx since the check.
PBStartScheduler ==
    /\ ppc = "running"
    /\ calls = 0
    /\ StartLocked(TheCaller)

\* Server.Start, lines 246-293, called once the consumer goroutine is
\* started: net.Listen fails and Start returns the error, or the server
\* listens and the goroutine that waits for ctx.Done() is started.
ServerStart ==
    /\ ppc = "running"
    /\ kpc # "none"
    /\ srv = "none"
    /\ \/ srv' = "listening" /\ spc' = "wait"
       \/ srv' = "failed" /\ UNCHANGED spc
    /\ UNCHANGED <<ppc, pret, nsent, ndone>>
    /\ UNCHANGED <<schedVars, storeVars, sseVars, pbVars, evalVars, obsVars, recvVars>>

\* Start, lines 1437-1440, 1444-1446 and 1449-1450: cleanup, after the
\* error of httpServer.Start or after <-ctx.Done(); its scheduler.Stop().
PBCleanup ==
    /\ ppc = "running"
    /\ srv = "failed" \/ (srv # "none" /\ parentDone)
    /\ ~stopped
    /\ StopLocked(TheCaller)

\* PBReturn that returns nil whatever httpServer.Start returned.
PBReturnSwallowsError ==
    /\ ppc = "running"
    /\ stopReturned /\ cpc[TheCaller] = "idle"
    /\ kpc = "done"
    /\ ppc' = "returned"
    /\ pret' = "nil"
    /\ UNCHANGED <<srv, spc, nsent, ndone>>
    /\ UNCHANGED <<schedVars, storeVars, sseVars, pbVars, evalVars, obsVars, recvVars>>

\* PBReturn without cleanup's wg.Wait().
PBReturnWithoutWait ==
    /\ ppc = "running"
    /\ stopReturned /\ cpc[TheCaller] = "idle"
    /\ ppc' = "returned"
    /\ pret' = IF srv = "failed" THEN "error" ELSE "nil"
    /\ UNCHANGED <<srv, spc, nsent, ndone>>
    /\ UNCHANGED <<schedVars, storeVars, sseVars, pbVars, evalVars, obsVars, recvVars>>

\* Start, lines 1439, 1446-1447 and 1451-1452: scheduler.Stop() has
\* returned, wg.Wait() returns when the consumer goroutine is done, and
\* Start returns the wrapped error or nil.
PBReturn ==
    /\ ppc = "running"
    /\ stopReturned /\ cpc[TheCaller] = "idle"
    /\ kpc = "done"
    /\ ppc' = "returned"
    /\ pret' = IF srv = "failed" THEN "error" ELSE "nil"
    /\ UNCHANGED <<srv, spc, nsent, ndone>>
    /\ UNCHANGED <<schedVars, storeVars, sseVars, pbVars, evalVars, obsVars, recvVars>>

\* The context given to PulseBoard.Start is cancelled; it is the parent of
\* the scheduler's context and, through BaseContext, of every request
\* context.
CancelStartCtx ==
    /\ ~parentDone
    /\ parentDone' = TRUE
    /\ serverDone' = TRUE
    /\ UNCHANGED <<schedFields, results, now, readAfterStop>>
    /\ UNCHANGED <<loopVars, workerVars, callerVars>>
    /\ UNCHANGED <<hwd, hpc, hch, hgot, hsnap, hcur, hdl, hwritten, hfail, reqDone>>
    /\ UNCHANGED <<storeVars, pbVars, evalVars, obsVars, recvVars, startVars>>

\* Server.Start, lines 283-287: <-ctx.Done() in the shutdown goroutine, and
\* httpServer.Shutdown begins by closing the listener.
ServerCtxDone ==
    /\ spc = "wait"
    /\ parentDone
    /\ spc' = "shutdown"
    /\ srv' = "draining"
    /\ UNCHANGED <<ppc, pret, nsent, ndone>>
    /\ UNCHANGED <<schedVars, storeVars, sseVars, pbVars, evalVars, obsVars, recvVars>>

\* Server.Start, lines 287-290: Shutdown returns nil, no handler running.
ServerShutdownReturns ==
    /\ spc = "shutdown"
    /\ \A k \in Conns : hpc[k] \in {"idle", "done"}
    /\ spc' = "done"
    /\ srv' = "closed"
    /\ UNCHANGED <<ppc, pret, nsent, ndone>>
    /\ UNCHANGED <<schedVars, storeVars, sseVars, pbVars, evalVars, obsVars, recvVars>>

\* Server.Start, lines 285-289: the 5 s of shutdownCtx are over with a
\* handler still running; Shutdown returns the context's error, logged.
ServerShutdownTimeout ==
    /\ spc = "shutdown"
    /\ \E k \in Conns : hpc[k] \notin {"idle", "done"}
    /\ spc' = "done"
    /\ srv' = "closed"
    /\ UNCHANGED <<ppc, pret, nsent, ndone>>
    /\ UNCHANGED <<schedVars, storeVars, sseVars, pbVars, evalVars, obsVars, recvVars>>

\* A client connects to /api/sse of the listening server: handleSSE.
SSEConnect(k) ==
    /\ srv = "listening"
    /\ SSESubscribe(k)

\* A worker's send to the result stream, counted.
WorkerSendResultCounted(w) ==
    /\ WorkerSendResultStep(w)
    /\ nsent' = nsent + 1
    /\ UNCHANGED <<ppc, pret, srv, spc, ndone>>
    /\ UNCHANGED obsVars

\* The consumer is through with a result, counted.
ConsumerNextResultCounted ==
    /\ ConsumerNextResultStep
    /\ ndone' = ndone + 1
    /\ UNCHANGED <<ppc, pret, srv, spc, nsent>>

\* The steps of the goroutines PulseBoard.Start leaves to themselves.
StartedSteps ==
    \/ StartSpawn(TheCaller)
    \/ LoopImmediate
    \/ LoopCtxDone
    \/ LoopCloseOnce
    \/ LoopWgDone
    \/ DispatchJob
    \/ DispatchCtxDone
    \/ DispatchClose
    \/ LoopWaitWorkers
    \/ \E w \in WorkerSlots : WorkerTakeJob(w)
    \/ \E w \in WorkerSlots : WorkerJobsClosed(w)
    \/ \E w \in WorkerSlots : \E code \in ResponseCodes : ProbeResponds(w, code)
    \/ \E w \in WorkerSlots : ProbeCancelled(w)
    \/ \E w \in WorkerSlots : WorkerSendResultCounted(w)
    \/ \E w \in WorkerSlots : WorkerCtxDone(w)
    \/ ConsumerTake
    \/ ConsumerExit
    \/ ConsumerUpdate
    \/ NotifyRLock(TheProducer)
    \/ NotifyDone(TheProducer)
    \/ ConsumerUpdateReturns
    \/ CallbackInvoke
    \/ CallbackReturns
    \/ ConsumerNextResultCounted
    \/ ServerCtxDone
    \/ ServerShutdownReturns

\* The steps of the caller of PulseBoard.Start.
CallerSteps ==
    \/ PBEntryCheck
    \/ PBStartScheduler
    \/ ConsumerSpawn
    \/ ServerStart
    \/ PBCleanup
    \/ StopWait(TheCaller)
    \/ StopClientClose(TheCaller)
    \/ StopCloseOnce(TheCaller)
    \/ PBReturn

\* The streaming connections of the server, what the store sends them and
\* the shutdown that does not outwait them.
StreamingSteps ==
    \/ \E h \in Handles : NotifySend(TheProducer, h)
    \/ ServerShutdownTimeout
    \/ \E k \in Conns : SSEConnect(k)
    \/ \E k \in Conns : SSEGetAll(k)
    \/ \E k \in Conns : SSESnapshotWrite(k)
    \/ \E k \in Conns : SSESnapshotDone(k)
    \/ \E k \in Conns : SSERecv(k)
    \/ \E k \in Conns : SSECtxDone(k)
    \/ \E k \in Conns : writeAndFlushOK(k)
    \/ \E k \in Conns : writeAndFlushFails(k)
    \/ \E k \in Conns : SSEUnsubscribe(k)
    \/ \E k \in Conns : ClientDisconnect(k)

StartNext ==
    \/ CallerSteps
    \/ StartedSteps
    \/ CancelStartCtx

ServeNext ==
    \/ StartNext
    \/ StreamingSteps

\* ------------------------------------------------------ status derivation
\* What calling an endpoint's extractor on a response does: there is none,
\* it returns a status, or it panics with a value (given by its %v text;
\* panic(nil) is recovered as a *runtime.PanicNilError).
ExtractorStatuses == {"up", "degraded", "down", "unknown"}
PanicValues == {"boom", "extractor panic: simulated failure",
                "panic called with nil argument"}
NoExtractor == [kind |-> "nil", status |-> "", value |-> ""]
Returns(s) == [kind |-> "returns", status |-> s, value |-> ""]
Panics(v) == [kind |-> "panics", status |-> "", value |-> v]
Extractors ==
    {NoExtractor} \cup {Returns(s) : s \in ExtractorStatuses}
                  \cup {Panics(v) : v \in PanicValues}

\* uuid.NewString() of safeExtract, line 370.
CorrelationIDs == {"id1", "id2"}

\* An error is the sequence of the pieces of its message; nil is <<>>.
NoError == <<>>
TransportErrors == {<<"request failed: ", "context deadline exceeded">>,
                    <<"failed to read response body: ", "unexpected EOF">>}
StackTrace == "goroutine stack"

\* safeExtract whose error carries the panic's text and the stack.
safeExtractLeaks(x, id) ==
    IF x.kind = "panics"
    THEN [status |-> "down",
          err |-> <<"extractor panic: ", x.value, StackTrace>>,
          logged |-> {}]
    ELSE [status |-> x.status, err |-> NoError, logged |-> {}]

\* safeExtract, lines 368-386: the extractor's status and a nil error, or,
\* when the call panics, the deferred recover: a fresh correlation id, the
\* panic and the stack to the logger, status down and an error made of the
\* id alone.
safeExtract(x, id) ==
    IF x.kind = "panics"
    THEN [status |-> "down",
          err |-> <<"extractor panic (correlation_id: ", id, ")">>,
          logged |-> {[correlation_id |-> id, panic |-> x.value,
                       stack |-> StackTrace]}]
    ELSE [status |-> x.status, err |-> NoError, logged |-> {}]

\* pollEndpoint consulting the extractor before it looks at the error.
pollEndpointExtractsFirst(ep, resp, x, id) ==
    LET r == safeExtract(x, id)
    IN  [name |-> ep, code |-> resp.code,
         status |-> IF x.kind # "nil" THEN r.status
                    ELSE IF resp.err # NoError THEN "down"
                    ELSE httpStatusToStatus(resp.code),
         err |-> IF x.kind # "nil" /\ r.err # NoError THEN r.err ELSE resp.err,
         consulted |-> x.kind # "nil",
         logged |-> IF x.kind # "nil" THEN r.logged ELSE {}]

\* pollEndpoint, lines 335-363: the result of one probe from the response
\* of Fetch, the endpoint's extractor x and the id safeExtract would draw.
\* consulted records whether the extractor was called.
pollEndpoint(ep, resp, x, id) ==
    IF resp.err # NoError
    THEN [name |-> ep, code |-> resp.code, status |-> "down",
          err |-> resp.err, consulted |-> FALSE, logged |-> {}]
    ELSE IF x.kind # "nil"
    THEN LET r == safeExtract(x, id)
         IN  [name |-> ep, code |-> resp.code, status |-> r.status,
              err |-> IF r.err # NoError THEN r.err ELSE resp.err,
              consulted |-> TRUE, logged |-> r.logged]
    ELSE [name |-> ep, code |-> resp.code,
          status |-> httpStatusToStatus(resp.code),
          err |-> resp.err, consulted |-> FALSE, logged |-> {}]

\* A response body, by what json.Unmarshal and extractJSONPath with the path
\* "status" make of it: whether it parses, and the text of the field ("" when
\* the body is no object, the field is missing or holds no scalar).
Bodies == {[json |-> FALSE, field |-> ""], [json |-> TRUE, field |-> ""],
           [json |-> TRUE, field |-> "ok"], [json |-> TRUE, field |-> "OK"],
           [json |-> TRUE, field |-> "degraded"],
           [json |-> TRUE, field |-> "failing"]}

\* strings.ToLower on the field texts above.
ToLower(s) == IF s = "OK" THEN "ok" ELSE s

\* mapStringToStatus, part_000 lines 104-113.
mapStringToStatus(s) ==
    IF s \in {"ok", "healthy", "up", "active", "running", "pass", "passed",
              "true", "green", "none", "operational"} THEN "up"
    ELSE IF s \in {"degraded", "warning", "partial", "yellow", "amber"}
         THEN "degraded"
    ELSE "down"

\* JSONFieldExtractor("status"), part_000 lines 48-64.
JSONFieldExtractor(body) ==
    IF ~body.json THEN "unknown"
    ELSE IF body.field = "" THEN "unknown"
    ELSE mapStringToStatus(ToLower(body.field))

\* HTTPStatusExtractor, part_000 lines 19-28.
HTTPStatusExtractor(code) ==
    IF code >= 200 /\ code < 300 THEN "up"
    ELSE IF code >= 400 /\ code < 500 THEN "degraded"
    ELSE "down"

\* FirstMatch, part_000 lines 182-192, on the statuses its extractors
\* return, in order.
RECURSIVE FirstMatch(_)
FirstMatch(ss) ==
    IF ss = <<>> THEN "unknown"
    ELSE IF Head(ss) # "unknown" THEN Head(ss)
    ELSE FirstMatch(Tail(ss))

\* DefaultExtractor, part_000 lines 226-229.
DefaultExtractor(body, code) ==
    FirstMatch(<<JSONFieldExtractor(body), HTTPStatusExtractor(code)>>)

\* toPollerEndpoints, part_002 lines 1461-1468: the extractor the scheduler
\* is given for an endpoint whose own extractor is x; nil stays nil, any
\* other is wrapped and does what x does.
toPollerExtractor(x) == IF x.kind = "nil" THEN NoExtractor ELSE x

\* The status codes a response is drawn from: both ends of every range of
\* httpStatusToStatus, and the zero of a Response that has no status.
DeriveCodes == {0, 199, 200, 299, 300, 399, 400, 499, 500, 503}
Responses == [code : DeriveCodes, err : TransportErrors \cup {NoError},
              body : Bodies]
DeriveInputs == [ep : Names, resp : Responses, x : Extractors,
                 id : CorrelationIDs]
NoCall == [ep |-> "", resp |-> [code |-> 0, err |-> NoError,
                                body |-> [json |-> FALSE, field |-> ""]],
           x |-> NoExtractor, id |-> ""]
NoOutput == [name |-> "", code |-> 0, status |-> "", err |-> NoError,
             consulted |-> FALSE, logged |-> {}]

EvalInit ==
    /\ xpanics = {} /\ xlog = {} /\ crashed = FALSE
    /\ din = NoCall /\ dout = NoOutput

\* One call of pollEndpoint on the arguments din.
Derive ==
    /\ din # NoCall
    /\ dout = NoOutput
    /\ dout' = pollEndpoint(din.ep, din.resp, din.x, din.id)
    /\ xlog' = xlog \cup dout'.logged
    /\ UNCHANGED <<din, xpanics, crashed>>
    /\ UNCHANGED <<schedVars, storeVars, sseVars, pbVars, obsVars, recvVars, startVars>>

DeriveNext == Derive

\* ------------------------------------------------------ the base interval
\* Durations in quarters of a second, so that intervals below and between
\* whole seconds exist.
Second == 4

\* calculateBaseInterval, lines 153-160: the interval of each endpoint, the
\* scheduler's own where the endpoint has none.
RECURSIVE intervalsOf(_, _)
intervalsOf(endpoints, interval) ==
    IF endpoints = <<>> THEN <<>>
    ELSE <<IF Head(endpoints) > 0 THEN Head(endpoints) ELSE interval>>
            \o intervalsOf(Tail(endpoints), interval)

\* calculateBaseInterval, lines 162-165: the fold of gcdDuration.
RECURSIVE gcdOfAll(_, _)
gcdOfAll(result, rest) ==
    IF rest = <<>> THEN result
    ELSE gcdOfAll(gcdDuration(result, Head(rest)), Tail(rest))

\* calculateBaseIntervalFor that takes the least interval for the divisor.
calculateBaseIntervalLeast(endpoints, interval) ==
    IF Len(endpoints) = 0 THEN interval
    ELSE LET intervals == intervalsOf(endpoints, interval)
             least == CHOOSE x \in SeqToSet(intervals) :
                         \A y \in SeqToSet(intervals) : x <= y
         IN  IF least < Second THEN Second ELSE least

\* calculateBaseInterval, lines 148-173, for a scheduler with the given
\* endpoint intervals (0: none) and global interval.
calculateBaseIntervalFor(endpoints, interval) ==
    IF Len(endpoints) = 0 THEN interval
    ELSE LET intervals == intervalsOf(endpoints, interval)
             result == gcdOfAll(Head(intervals), Tail(intervals))
         IN  IF result < Second THEN Second ELSE result

\* The schedulers NewScheduler is asked for: up to three endpoints, each
\* without an interval of its own or with one, and a positive global one.
MaxEndpoints == 3
EndpointIntervals == {0, 2, 4, 6, 8, 12, 20}
GlobalIntervals == {1, 2, 4, 8, 12}
EndpointSeqs == UNION {[1..n -> EndpointIntervals] : n \in 0..MaxEndpoints}
BaseInputs == [endpoints : EndpointSeqs, interval : GlobalIntervals]
NoBase == [base |-> 0]

\* Start, line 202: s.baseInterval = s.calculateBaseInterval().
CalculateBase ==
    /\ din \in BaseInputs
    /\ dout = NoOutput
    /\ dout' = [base |-> calculateBaseIntervalFor(din.endpoints, din.interval)]
    /\ UNCHANGED <<din, xpanics, xlog, crashed>>
    /\ UNCHANGED <<schedVars, storeVars, sseVars, pbVars, obsVars, recvVars, startVars>>

BaseNext == CalculateBase

\* What the extractor of each endpoint of the scheduler can do when it is
\* called: a has one, which returns a status or panics; b has none.
EpExtractor == [a |-> {Returns("up"), Panics("boom")}, b |-> {NoExtractor}]

\* The error of a worker's result, kept as the first piece of its message.
ErrorHead(e) == IF e = NoError THEN "" ELSE e[1]

\* ProbeEvaluated without the deferred recover of safeExtract: the panic
\* leaves the worker goroutine and ends the process.
ProbeEvaluatedNoRecover(w, code, x, id) ==
    /\ wpc[w] = "probe"
    /\ code \in ResponseCodes
    /\ x \in EpExtractor[wep[w]]
    /\ LET r == pollEndpoint(wep[w], [code |-> code, err |-> NoError], x, id)
       IN  IF x.kind = "panics"
           THEN /\ crashed' = TRUE
                /\ UNCHANGED <<wres, wpc, wdeadline, xpanics, xlog>>
           ELSE /\ wres' = [wres EXCEPT ![w] =
                               [name |-> r.name, status |-> r.status,
                                err |-> ErrorHead(r.err)]]
                /\ wpc' = [wpc EXCEPT ![w] = "send"]
                /\ wdeadline' = [wdeadline EXCEPT ![w] = NoTime]
                /\ UNCHANGED <<crashed, xpanics, xlog>>
    /\ UNCHANGED <<din, dout>>
    /\ UNCHANGED <<schedFields, results, wep>>
    /\ UNCHANGED <<loopVars, callerVars, envVars>>
    /\ UNCHANGED <<storeVars, sseVars, pbVars, obsVars, recvVars, startVars>>

\* pollEndpoint, lines 337-363, on a response without a transport error:
\* the status comes from the endpoint's extractor through safeExtract, or
\* from the status code; the worker goes on to send the result.
ProbeEvaluated(w, code, x, id) ==
    /\ wpc[w] = "probe"
    /\ code \in ResponseCodes
    /\ x \in EpExtractor[wep[w]]
    /\ LET r == pollEndpoint(wep[w], [code |-> code, err |-> NoError], x, id)
       IN  /\ wres' = [wres EXCEPT ![w] =
                          [name |-> r.name, status |-> r.status,
                           err |-> ErrorHead(r.err)]]
           /\ xlog' = xlog \cup r.logged
    /\ wpc' = [wpc EXCEPT ![w] = "send"]
    /\ wdeadline' = [wdeadline EXCEPT ![w] = NoTime]
    /\ xpanics' = IF x.kind = "panics" THEN xpanics \cup {wep[w]} ELSE xpanics
    /\ UNCHANGED <<crashed, din, dout>>
    /\ UNCHANGED <<schedFields, results, wep>>
    /\ UNCHANGED <<loopVars, callerVars, envVars>>
    /\ UNCHANGED <<storeVars, sseVars, pbVars, obsVars, recvVars, startVars>>

\* A scheduler that is started once and never stopped, its endpoints'
\* extractors, the clock and a reader of the stream.
ExtractNext ==
    \/ PBSchedulerStart
    \/ StartSpawn(TheCaller)
    \/ LoopImmediate
    \/ LoopTick
    \/ DispatchJob
    \/ DispatchClose
    \/ LoopWaitWorkers
    \/ \E w \in WorkerSlots : WorkerTakeJob(w)
    \/ \E w \in WorkerSlots : WorkerJobsClosed(w)
    \/ \E w \in WorkerSlots : \E code \in ResponseCodes :
          \E x \in Extractors : \E id \in CorrelationIDs :
             ProbeEvaluated(w, code, x, id)
    \/ \E w \in WorkerSlots : ProbeTimesOut(w)
    \/ \E w \in WorkerSlots : WorkerSendResult(w)
    \/ Advance
    \/ ReadResult

\* ------------------------------------------------- the scheduler in time
\* Nothing observed yet.
ObsInit ==
    /\ firstDispatch = <<>>
    /\ pstart = [e \in Names |-> NoTime]
    /\ pdur = [e \in Names |-> NoTime]
    /\ pseq = [e \in Names |-> 0]
    /\ wseq = [w \in WorkerSlots |-> 0]
    /\ rseq = <<>>
    /\ kseq = 0
    /\ sseq = [e \in Names |-> 0]

\* How far the clock of the timed scheduler runs.
MaxClock == 5

\* The endpoint whose transport fails; every other endpoint answers in the
\* instant its probe starts.
FailingEndpoint == "b"

\* DispatchJob, observed: before the ticker exists the endpoint is noted.
DispatchJobObserved ==
    /\ DispatchJobStep
    /\ firstDispatch' = IF tickerNext = NoTime
                        THEN Append(firstDispatch, Head(due))
                        ELSE firstDispatch
    /\ UNCHANGED <<pstart, pdur, ordVars>>

\* WorkerTakeJob, observed: the probe of the endpoint starts now.
WorkerTakeJobObserved(w) ==
    /\ WorkerTakeJobStep(w)
    /\ pstart' = [pstart EXCEPT ![Head(jobs)] = now]
    /\ UNCHANGED <<firstDispatch, pdur, ordVars>>

\* ProbeEnds, observed: the probe has run from its start until now.
ProbeEndsObserved(w, code, err) ==
    /\ ProbeEndsStep(w, code, err)
    /\ pdur' = [pdur EXCEPT ![wep[w]] = now - pstart[wep[w]]]
    /\ UNCHANGED <<firstDispatch, pstart, ordVars>>

\* Fetch, lines 107-132: the response of a healthy endpoint.
ProbeRespondsAtOnce(w) ==
    /\ wep[w] # FailingEndpoint
    /\ \E code \in ResponseCodes : ProbeEndsObserved(w, code, "")

\* Fetch, lines 85 and 107-112: the endpoint's timeout expires.
ProbeTimesOutObserved(w) ==
    /\ now >= wdeadline[w]
    /\ ProbeEndsObserved(w, 0, "deadline exceeded")

\* Fetch, lines 107-112: httpClient.Do of the failing endpoint returns an
\* error before the timeout, at once or later.
ProbeRefused(w) ==
    /\ wep[w] = FailingEndpoint
    /\ ProbeEndsObserved(w, 0, "connection refused")

\* The steps that take no time: those of the goroutines of the scheduler,
\* the answer of a healthy endpoint, the end of a probe at its timeout and
\* the reader of the stream.
TimedUrgent ==
    \/ StartSpawn(TheCaller)
    \/ LoopImmediate
    \/ LoopTick
    \/ DispatchJobObserved
    \/ DispatchClose
    \/ LoopWaitWorkers
    \/ \E w \in WorkerSlots : WorkerTakeJobObserved(w)
    \/ \E w \in WorkerSlots : WorkerJobsClosed(w)
    \/ \E w \in WorkerSlots : ProbeRespondsAtOnce(w)
    \/ \E w \in WorkerSlots : ProbeTimesOutObserved(w)
    \/ \E w \in WorkerSlots : WorkerSendResult(w)
    \/ ReadResult

\* Time passes only when no goroutine has a step to take.
TimedAdvance ==
    /\ ~ENABLED TimedUrgent
    /\ AdvanceWithin(MaxClock)

TimedNext ==
    \/ PBSchedulerStart
    \/ TimedUrgent
    \/ \E w \in WorkerSlots : ProbeRefused(w)
    \/ TimedAdvance

SchedNext ==
    \/ \E c \in Callers : StartLocked(c)
    \/ \E c \in Callers : StartSpawn(c)
    \/ \E c \in Callers : StopLocked(c)
    \/ \E c \in Callers : StopWait(c)
    \/ \E c \in Callers : StopClientClose(c)
    \/ \E c \in Callers : StopCloseOnce(c)
    \/ LoopImmediate
    \/ LoopTick
    \/ LoopCtxDone
    \/ LoopCloseOnce
    \/ LoopWgDone
    \/ DispatchJob
    \/ DispatchCtxDone
    \/ DispatchClose
    \/ LoopWaitWorkers
    \/ \E w \in WorkerSlots : WorkerTakeJob(w)
    \/ \E w \in WorkerSlots : WorkerJobsClosed(w)
    \/ \E w \in WorkerSlots : \E code \in ResponseCodes : ProbeResponds(w, code)
    \/ \E w \in WorkerSlots : ProbeTimesOut(w)
    \/ \E w \in WorkerSlots : ProbeCancelled(w)
    \/ \E w \in WorkerSlots : WorkerSendResult(w)
    \/ \E w \in WorkerSlots : WorkerCtxDone(w)
    \/ CancelParent
    \/ Advance
    \/ ReadResult

\* The scheduler and the store each from their constructor, and no
\* connection yet.
Init == SchedInit /\ StoreInit /\ SSEInit /\ PBInit /\ EvalInit /\ ObsInit /\ RecvInit /\ StartInit

\* The scheduler with its callers, clock and reader.
Next == SchedNext

Spec == Init /\ [][Next]_vars

\* The store with its producers, subscribers and channel readers; the
\* scheduler takes no step, so one of its configurations is enough.
StoreSpecInit == Init /\ maxConcurrency = 1

StoreSpec == StoreSpecInit /\ [][StoreNext]_vars

\* A goroutine inside Update or notifySubscribers that can take a step takes
\* one.  Nothing obliges a subscriber to read its channel.
StoreProgress ==
    \/ \E p \in Producers : NotifyRLock(p)
    \/ \E p \in Producers : \E h \in Handles : NotifySend(p, h)
    \/ \E p \in Producers : NotifyDone(p)

FairStoreSpec == StoreSpec /\ WF_vars(StoreProgress)

\* The steps of the scheduler's own goroutines: the callers inside Start and
\* Stop, the control loop, the workers, and the HTTP client noticing that its
\* request's context is done.
SchedProgress ==
    \/ \E c \in Callers : StartSpawn(c)
    \/ \E c \in Callers : StopWait(c)
    \/ \E c \in Callers : StopClientClose(c)
    \/ \E c \in Callers : StopCloseOnce(c)
    \/ LoopImmediate
    \/ LoopCtxDone
    \/ LoopCloseOnce
    \/ LoopWgDone
    \/ DispatchJob
    \/ DispatchCtxDone
    \/ DispatchClose
    \/ LoopWaitWorkers
    \/ \E w \in WorkerSlots : WorkerTakeJob(w)
    \/ \E w \in WorkerSlots : WorkerJobsClosed(w)
    \/ \E w \in WorkerSlots : ProbeCancelled(w)
    \/ \E w \in WorkerSlots : WorkerSendResult(w)
    \/ \E w \in WorkerSlots : WorkerCtxDone(w)

\* The Go runtime runs a goroutine that can take a step: the scheduler does
\* not stop while one of its goroutines can move.  Nothing obliges the
\* reader of Results() to read, the clock to advance, a response to arrive
\* or a caller to call.
SchedFairness == WF_vars(SchedProgress)

FairSpec == Spec /\ SchedFairness

\* The streaming connections over the store, fed by one producer; the
\* scheduler takes no step.
SSESpecInit ==
    /\ SchedInit /\ maxConcurrency = 1
    /\ StoreInit
    /\ \E d \in [Conns -> BOOLEAN] : SSEInitWith(d)
    /\ PBInit /\ EvalInit /\ ObsInit /\ RecvInit /\ StartInit
SSESpec == SSESpecInit /\ [][SSENext]_vars

\* The steps the goroutines of the server and of the store take on their
\* own.  A write to the peer returns by itself only under a deadline;
\* nothing obliges a peer without one to take the bytes or to fail.
SSEProgress ==
    \/ NotifyRLock(TheProducer)
    \/ \E h \in Handles : NotifySend(TheProducer, h)
    \/ NotifyDone(TheProducer)
    \/ \E k \in Conns : SSEGetAll(k)
    \/ \E k \in Conns : SSESnapshotWrite(k)
    \/ \E k \in Conns : SSESnapshotDone(k)
    \/ \E k \in Conns : SSERecv(k)
    \/ \E k \in Conns : SSEChClosed(k)
    \/ \E k \in Conns : SSECtxDone(k)
    \/ \E k \in Conns : DeadlineArmed(k) /\ writeAndFlushOK(k)
    \/ \E k \in Conns : DeadlineArmed(k) /\ writeAndFlushFails(k)
    \/ \E k \in Conns : SSEUnsubscribe(k)

FairSSESpec == SSESpec /\ WF_vars(SSEProgress)

\* pollEndpoint as a function: every call it can be given, then its result.
DeriveSpecInit ==
    /\ SchedInit /\ maxConcurrency = 1
    /\ StoreInit /\ SSEInit /\ PBInit /\ ObsInit /\ RecvInit /\ StartInit
    /\ xpanics = {} /\ xlog = {} /\ crashed = FALSE
    /\ din \in DeriveInputs /\ dout = NoOutput
DeriveSpec == DeriveSpecInit /\ [][DeriveNext]_vars

\* calculateBaseInterval as a function of the scheduler's configuration.
BaseSpecInit ==
    /\ SchedInit /\ maxConcurrency = 1
    /\ StoreInit /\ SSEInit /\ PBInit /\ ObsInit /\ RecvInit /\ StartInit
    /\ xpanics = {} /\ xlog = {} /\ crashed = FALSE
    /\ din \in BaseInputs /\ dout = NoOutput
BaseSpec == BaseSpecInit /\ [][BaseNext]_vars

\* The scheduler with extractors.  Its goroutines take their steps, every
\* probe ends (Fetch returns by the endpoint's timeout at the latest) and
\* the stream is read; the clock is not obliged to move.
ExtractSpec == Init /\ [][ExtractNext]_vars

ExtractProgress ==
    \/ StartSpawn(TheCaller)
    \/ LoopImmediate
    \/ LoopTick
    \/ DispatchJob
    \/ DispatchClose
    \/ LoopWaitWorkers
    \/ \E w \in WorkerSlots : WorkerTakeJob(w)
    \/ \E w \in WorkerSlots : WorkerJobsClosed(w)
    \/ \E w \in WorkerSlots : \E code \in ResponseCodes :
          \E x \in Extractors : \E id \in CorrelationIDs :
             ProbeEvaluated(w, code, x, id)
    \/ \E w \in WorkerSlots : ProbeTimesOut(w)
    \/ \E w \in WorkerSlots : WorkerSendResult(w)
    \/ ReadResult

FairExtractSpec == ExtractSpec /\ WF_vars(ExtractProgress)

\* The scheduler against the clock: started once, never stopped, one
\* endpoint whose transport fails after any time up to its timeout.
TimedSpec == Init /\ [][TimedNext]_vars

\* PulseBoard.Start: the scheduler, the result consumer with its callbacks,
\* the store, and subscribers that only subscribe.
PBSpec == StoreSpecInit /\ [][PBNext]_vars

\* The running scheduler with one or two workers and the consumer of
\* PulseBoard.Start, the probes numbered.
OrderSpec == Init /\ [][OrderNext]_vars

\* PulseBoard.Start from its call to its return: its caller, the scheduler
\* up to its first tick, the result consumer, the HTTP server without
\* connections, and the cancellation of the context.  Every goroutine that
\* can take a step takes one in the end.
StartSpec == StoreSpecInit /\ [][StartNext]_vars
FairStartSpec == StartSpec /\ WF_vars(CallerSteps) /\ WF_vars(StartedSteps)

\* The same with one streaming connection to the server.
ServeSpec == StoreSpecInit /\ [][ServeNext]_vars

\* The result consumer of PulseBoard.Start with callbacks that return,
\* panic or write to what they are given, and one streaming client; the
\* scheduler is the source of results.
CallbackSpec == StoreSpecInit /\ [][CallbackNext]_vars

\* The result consumer with callbacks that only return, and receivers of
\* stored results (callers of GetAll, the streaming client) that write to
\* the label maps they hold.
ReceiverSpec == StoreSpecInit /\ [][ReceiverNext]_vars

\* ------------------------------------------------------------ the claims
LoopExited == lpc = "done"
WorkersExited == \A w \in WorkerSlots : wpc[w] = "none"

\* C1: once any call of Stop on a started scheduler has returned, the control
\* loop and every worker have exited and the result stream is closed, however
\* the calls of Start and Stop interleave.
C1_StopReturnsAfterExit ==
    (stopReturned /\ started) =>
        /\ LoopExited
        /\ WorkersExited
        /\ resultsClosed
        /\ \A c \in Callers : cpc[c] # "spawn"

C1_Witness ==
    /\ stopReturned /\ started /\ loops = 1
    /\ Len(results) > 0
    /\ \E c \in Callers : cpc[c] \in {"stopWait", "stopClient", "stopOnce"}

\* C2: from any moment at which a call of Stop is pending, or the run is
\* cancelled while a worker is blocked delivering a result, a moment follows
\* at which every call of Stop has returned and every worker has exited,
\* also when the result stream is full and nothing ever reads it.
InStop(c) == cpc[c] \in {"stopWait", "stopClient", "stopOnce"}

C2_StopAlwaysReturns ==
    (\/ \E c \in Callers : InStop(c)
     \/ ctxDone /\ \E w \in WorkerSlots : wpc[w] = "send")
    ~> (/\ \A c \in Callers : ~InStop(c)
        /\ \A w \in WorkerSlots : wpc[w] = "none")

C2_Witness ==
    /\ ctxDone
    /\ Len(results) = ResultsCap
    /\ \E w \in WorkerSlots : wpc[w] = "send"
    /\ \E c \in Callers : cpc[c] = "stopWait"

\* C3: the scheduler moves unstarted -> running -> stopped or unstarted ->
\* stopped only; at most one control loop is ever spawned, and after a Stop
\* that came before any Start nothing is spawned and no probe starts.
Phase ==
    IF stopped THEN "stopped" ELSE IF started THEN "running" ELSE "unstarted"

C3_PhaseStep ==
    /\ <<Phase, Phase'>> \in {<<"unstarted", "unstarted">>, <<"unstarted", "running">>,
                             <<"unstarted", "stopped">>, <<"running", "running">>,
                             <<"running", "stopped">>, <<"stopped", "stopped">>}
    /\ started => started'
    /\ (stopped /\ ~started) => ~started'
    /\ loops' <= 1 /\ wg' <= 1
    /\ ~started' => (loops' = 0 /\ lpc' = "none" /\ \A w \in WorkerSlots : wpc'[w] = "none")

C3_Lifecycle == [][C3_PhaseStep]_vars

C3_Witness ==
    /\ started /\ stopped /\ loops = 1 /\ calls = MaxCalls

\* C4 (as claimed): once the run's context is done, no endpoint is put on
\* the job queue, none is taken by a worker and no probe starts.
C4_NoDispatchAfterCancel ==
    [][ctxDone =>
          /\ Len(jobs') <= Len(jobs) \/ lpc # "dispatch"
          /\ \A w \in WorkerSlots : wpc'[w] = "probe" => wpc[w] = "probe"]_vars

\* C5 (as claimed): a probe in flight ends only with a response or with its
\* own timeout, never because the run was cancelled.
C5_ProbeNotAborted ==
    [][\A w \in WorkerSlots :
          (wpc[w] = "probe" /\ wpc'[w] = "send") =>
              wres'[w].err \in {"", "deadline exceeded"}]_vars

C7_UpdateCompletes ==
    (\E p \in Producers : upc[p] # "idle") ~> (\A p \in Producers : upc[p] = "idle")

C7_Witness ==
    \E p \in Producers, h \in Handles :
        /\ upc[p] = "notify" /\ h \in unot[p]
        /\ Len(queue[h]) = SubscriberBuffer
        /\ \E q \in Producers \ {p} : upc[q] # "idle"

\* C8: an update published while a subscriber's channel is full is dropped
\* for that subscriber alone: the entry is stored before any notification,
\* each iteration of the range either appends the update to the one channel
\* it is about (room) or leaves every channel as it is (full) and goes on to
\* the remaining subscribers, Update returns only after the last of them, and
\* no channel ever holds more than its capacity.
C8_NotifyStep(p) ==
    /\ (upc[p] = "idle" /\ upc'[p] = "rlock") => ures'[p] \in statuses'
    /\ (upc[p] = "notify" /\ unot'[p] # unot[p]) =>
           \E h \in unot[p] :
               /\ unot'[p] = unot[p] \ {h}
               /\ upc'[p] = "notify"
               /\ IF Len(queue[h]) < SubscriberBuffer
                  THEN queue' = [queue EXCEPT ![h] = Append(@, ures[p])]
                  ELSE queue' = queue
    /\ (upc[p] = "notify" /\ upc'[p] = "idle") => unot[p] = {}

C8_DropForFullSubscriberOnly ==
    /\ [](\A h \in Handles : Len(queue[h]) <= SubscriberBuffer)
    /\ [][\A p \in Producers : C8_NotifyStep(p)]_vars

C8_Witness ==
    \E p \in Producers, h \in subscribers, g \in subscribers :
        /\ upc[p] = "notify" /\ unot[p] = {}
        /\ h \in udrop[p] /\ g \notin udrop[p]
        /\ Len(queue[h]) = SubscriberBuffer
        /\ queue[g] # <<>> /\ queue[g][Len(queue[g])] = ures[p]
        /\ ures[p] \in statuses

\* C9: a subscription channel is closed exactly once, by the Unsubscribe that
\* removes it; nothing is sent to a closed channel; an Unsubscribe that finds
\* no such subscription changes nothing; nothing panics.
C9_ChannelState ==
    /\ ~panicked
    /\ \A h \in Handles :
        /\ chClosed[h] <=> (h <= allocated /\ h \notin subscribers)
        /\ chClosed[h] => \A p \in Producers : h \notin unot[p]

C9_Step ==
    /\ \A h \in Handles :
           chClosed[h] => (chClosed'[h] /\ Len(queue'[h]) <= Len(queue[h]))
    /\ unsubNoop' # unsubNoop =>
           UNCHANGED <<statuses, subscribers, allocated, queue, chClosed,
                       panicked, upc, ures, unot, udrop, updates, lastApplied>>

C9_UnsubscribeClosesOnce == []C9_ChannelState /\ [][C9_Step]_vars

C9_Witness ==
    /\ unsubNoop
    /\ \E h \in Handles : chClosed[h] /\ queue[h] # <<>>
    /\ \E p \in Producers : upc[p] = "notify"
    /\ subscribers # {}

\* C10: the store holds at most one entry per endpoint name, and GetAll
\* returns for each name exactly the value of the last Update applied for it.
EntriesOf(n) == {e \in GetAll : e.name = n}

C10_LastUpdateWins ==
    \A n \in Names :
        EntriesOf(n) = IF lastApplied[n] = NoStoreResult THEN {} ELSE {lastApplied[n]}

C10_Witness ==
    /\ updates >= 2
    /\ \E p, q \in Producers :
          /\ ures[p] # NoStoreResult /\ ures[q] # NoStoreResult
          /\ ures[p].name = ures[q].name /\ ures[p] # ures[q]
          /\ EntriesOf(ures[p].name) = {ures[q]}

\* ------------------------------------------------ streaming delivery
Card(S) == Cardinality(S)

\* What connection k has taken from its channel and not yet written,
\* followed by what waits in the channel.
Pending(k) ==
    (IF hpc[k] = "loopWrite" THEN <<hcur[k]>> ELSE <<>>) \o queue[hch[k]]

\* Everything written by k and everything on its way to being written.
Stream(k) == hwritten[k] \o Pending(k)

InSnapshot(k) == hpc[k] \in {"snapshot", "snapWrite"}
InLoop(k) == hpc[k] \in {"select", "loopWrite"}

\* Where connection k stands: nothing is written before the subscription
\* and the snapshot are taken; during the snapshot each entry GetAll
\* returned is written, being written or still to write, once; in the loop
\* the first events are those entries, one event each; after the handler
\* has returned its channel is no subscriber.
C11_State(k) ==
    /\ hpc[k] \in {"idle", "getall"} => hwritten[k] = <<>>
    /\ hpc[k] # "idle" => hch[k] \in Handles /\ hch[k] <= allocated
    /\ InSnapshot(k) =>
          /\ SeqToSet(hwritten[k]) \cup hsnap[k]
                \cup (IF hpc[k] = "snapWrite" THEN {hcur[k]} ELSE {}) = hgot[k]
          /\ Len(hwritten[k]) + Card(hsnap[k])
                + (IF hpc[k] = "snapWrite" THEN 1 ELSE 0) = Card(hgot[k])
    /\ InLoop(k) =>
          /\ Len(hwritten[k]) >= Card(hgot[k])
          /\ {hwritten[k][i] : i \in 1..Card(hgot[k])} = hgot[k]
    /\ hpc[k] = "done" => hch[k] \notin subscribers

\* What connection k does in one step: the snapshot is the content of the
\* store when GetAll is called, with the subscription already there; in the
\* loop the stream of k only grows at its end, by the update being
\* published, so that every update that reached the channel is written
\* once and in the order of the channel; the loop is left only on a closed
\* and drained channel, on the cancellation signal or on a failed write.
C11_Step(k) ==
    /\ (hpc[k] = "getall" /\ hpc'[k] = "snapshot") =>
          /\ hgot'[k] = statuses
          /\ hch[k] \in subscribers \/ chClosed[hch[k]]
    /\ (InLoop(k) /\ InLoop(k)') =>
          \/ Stream(k)' = Stream(k)
          \/ /\ upc[TheProducer] = "notify"
             /\ Stream(k)' = Append(Stream(k), ures[TheProducer])
    /\ hwritten'[k] # hwritten[k] =>
          /\ hpc[k] \in {"snapWrite", "loopWrite"}
          /\ hwritten'[k] = Append(hwritten[k], hcur[k])
    /\ (InLoop(k) /\ ~InLoop(k)') =>
          /\ hpc'[k] = "unsub"
          /\ \/ hpc[k] = "select" /\ ReqCtxDone(k)
             \/ hpc[k] = "select" /\ chClosed[hch[k]] /\ queue[hch[k]] = <<>>
             \/ hpc[k] = "loopWrite" /\ hfail'[k]

Exited(k) == hpc[k] = "done" /\ hch[k] \notin subscribers

\* The loop of k is blocked in its select: nothing to receive.
Waiting(k) ==
    hpc[k] = "select" /\ queue[hch[k]] = <<>> /\ ~chClosed[hch[k]]

\* An update waits in the channel of k.
HasUpdate(k) == hch[k] \in Handles /\ queue[hch[k]] # <<>>

\* C12: when the cancellation signal of a connection has fired while its
\* loop is blocked waiting for the next update, the loop exits and the
\* subscription is removed, whether or not the writer supports write
\* deadlines; the loop stops being blocked the other way only if an update
\* reaches its channel first.
C12_CancelWhileWaiting ==
    \A k \in Conns :
        (Waiting(k) /\ ReqCtxDone(k)) ~> (Exited(k) \/ HasUpdate(k))

\* A loop blocked in its select with the signal fired, on a writer without
\* write deadlines that has already written an event.
C12_Witness ==
    \E k \in Conns :
        /\ Waiting(k) /\ ReqCtxDone(k)
        /\ ~hwd[k] /\ ~hdl[k] /\ hwritten[k] # <<>>

\* C13: a failed write or flush, a passed write deadline included, ends the
\* connection: the failing step writes nothing and leaves the handler at
\* its deferred Unsubscribe, nothing is written afterwards (the event is
\* not retried), and the subscription is removed.
C13_FailedStep(k) ==
    /\ (hfail'[k] /\ ~hfail[k]) =>
          hwritten'[k] = hwritten[k] /\ hpc'[k] = "unsub"
    /\ hfail[k] =>
          /\ hfail'[k]
          /\ hwritten'[k] = hwritten[k]
          /\ hpc'[k] \in {"unsub", "done"}

C13_WriteFailureEndsConnection ==
    /\ [](\A k \in Conns : hfail[k] => hpc[k] \in {"unsub", "done"})
    /\ [][\A k \in Conns : C13_FailedStep(k)]_vars
    /\ \A k \in Conns : hfail[k] ~> Exited(k)

\* A connection with write deadlines whose write of a forwarded update
\* failed after the snapshot went out, and which has returned.
C13_Witness ==
    \E k \in Conns :
        /\ hfail[k] /\ Exited(k) /\ hwd[k]
        /\ Card(hgot[k]) >= 1
        /\ Len(hwritten[k]) = Card(hgot[k])
        /\ updates = MaxUpdates

\* The connection is open: its handler runs.
Open(k) == hpc[k] \notin {"idle", "done"}

\* C14: after the server context is cancelled every open connection's
\* handler returns and its subscription is removed, at whichever step the
\* handler is.
C14_ShutdownEndsEveryLoop ==
    \A k \in Conns : (serverDone /\ Open(k)) ~> Exited(k)

\* ------------------------------------------------- PulseBoard.Start
\* The consumer is between the return of Update and the end of the
\* callbacks of the result it holds.
InCallbacks == kpc \in {"callbacks", "incb"}

\* C15: while the callbacks of a result run, and from before the first of
\* them is invoked, the Update of that result has returned (entry replaced,
\* notifySubscribers over) and the Store holds that result under its name.
C15_StoreBeforeCallbacks ==
    (InCallbacks \/ cbrun # {}) =>
        /\ kapplied
        /\ upc[TheProducer] = "idle"
        /\ pollerResultToStoreResult(kres) \in statuses
        /\ \A e \in statuses :
              e.name = kres.name => e = pollerResultToStoreResult(kres)

\* The first callback runs for a result that a subscriber has in its
\* channel.
C15_Witness ==
    /\ kpc = "incb" /\ cbrun = {1}
    /\ \E h \in subscribers :
          /\ queue[h] # <<>>
          /\ queue[h][Len(queue[h])] = pollerResultToStoreResult(kres)

\* A step of the consumer on the stream or on the store.
C16_ConsumerStep ==
    /\ Len(results') < Len(results) =>
          /\ cbrun = {} /\ upc[TheProducer] = "idle"
          /\ kpc = "range"
          /\ kres # NoResult => kcb > Len(StatusCallbacks)
    /\ (updates' # updates \/ statuses' # statuses) =>
          /\ cbrun = {} /\ kpc = "update" /\ kcb = 1
    /\ queue' # queue => cbrun = {} /\ kpc = "notify"

Queued(e) == e \in SeqToSet(due) \cup SeqToSet(jobs)
Probing(e) == \E w \in WorkerSlots : wpc[w] = "probe" /\ wep[w] = e

\* The step of worker w in which its endpoint's extractor panics.
PanicStep(w) ==
    /\ wpc[w] = "probe"
    /\ wpc'[w] # "probe"
    /\ wres'[w].err = "extractor panic (correlation_id: "

\* C17: a panic of an extractor never ends the process; the step in which
\* it happens leaves the worker with a result to send like any other
\* probe and changes nothing else of the scheduler (the control loop, the
\* job queue, the other workers, the poll times); and every endpoint that
\* is due, in the tick of the panic and in every later one, the panicking
\* endpoint included, is handed to a worker and probed.
C17_PanicContained ==
    /\ [](~crashed)
    /\ [][\A w \in WorkerSlots : PanicStep(w) =>
             /\ wpc'[w] = "send"
             /\ wres'[w].name = wep[w] /\ wres'[w].status = "down"
             /\ \A v \in WorkerSlots \ {w} :
                   wpc'[v] = wpc[v] /\ wres'[v] = wres[v]
                   /\ wdeadline'[v] = wdeadline[v]
             /\ UNCHANGED <<schedFields, results, wep, loopVars, callerVars,
                            envVars>>]_vars
    /\ \A e \in Names : Queued(e) ~> Probing(e)

\* The extractor of a has panicked, the result of b from the same tick is in
\* the stream with the status of its code, and a is being probed again in
\* the next tick.
C17_Witness ==
    /\ "a" \in xpanics
    /\ now = 1 /\ lastPolledAt["a"] = 1
    /\ Probing("a")
    /\ \E i \in 1..Len(results) :
          results[i] = [name |-> "b", status |-> "up", err |-> ""]

\* ---------------------------------------------------------------- C18
Derived == dout # NoOutput
ExtractorPanicked == Derived /\ din.resp.err = NoError /\ din.x.kind = "panics"

\* C18: the result of a probe whose extractor panicked has status down and
\* an error that is not nil, holds the correlation id drawn for the panic,
\* holds neither the panic's text nor the stack, and is the same error
\* whatever the panic value; the text and the stack go to the logger under
\* the same id.
C18_PanicResult ==
    ExtractorPanicked =>
        /\ dout.status = "down"
        /\ dout.err # NoError
        /\ din.id \in SeqToSet(dout.err)
        /\ din.x.value \notin SeqToSet(dout.err)
        /\ StackTrace \notin SeqToSet(dout.err)
        /\ \A v \in PanicValues :
              pollEndpoint(din.ep, din.resp, Panics(v), din.id).err = dout.err
        /\ [correlation_id |-> din.id, panic |-> din.x.value,
            stack |-> StackTrace] \in xlog

\* The extractor panicked with the text of the test, and the result is out.
C18_Witness ==
    /\ ExtractorPanicked
    /\ din.x.value = "extractor panic: simulated failure"
    /\ dout.consulted
    /\ xlog # {}

\* ---------------------------------------------------------------- C20
\* C20: a transport error gives status down with that error attached and
\* the extractor not called, configured or not; without a transport error
\* and without an extractor the status follows the code alone: up for
\* 200..299, degraded for 400..499, down for every other code.
C20_StatusDerivation ==
    Derived =>
        /\ din.resp.err # NoError =>
              /\ dout.status = "down"
              /\ dout.err = din.resp.err
              /\ ~dout.consulted /\ dout.logged = {}
        /\ (din.resp.err = NoError /\ din.x = NoExtractor) =>
              /\ dout.status =
                    IF din.resp.code >= 200 /\ din.resp.code < 300 THEN "up"
                    ELSE IF din.resp.code >= 400 /\ din.resp.code < 500
                         THEN "degraded"
                    ELSE "down"
              /\ dout.err = NoError
              /\ ~dout.consulted

\* A transport error on an endpoint whose extractor would have panicked.
C20_Witness ==
    /\ Derived
    /\ din.resp.err # NoError
    /\ din.x.kind = "panics"
    /\ dout.status = "down"

\* ---------------------------------------------------------------- C19
\* The ticker has fired, the control loop has not taken the tick, and e is
\* due at this time.
TickDue(e) ==
    /\ tickPending
    /\ lastPolledAt[e] # NoTime
    /\ now - lastPolledAt[e] >= EffectiveInterval(e)

\* C19: an endpoint other than the failing one that is due at a tick is
\* dispatched at that tick: time does not pass while the tick at which it
\* is due waits to be taken, however long the probe of the failing
\* endpoint runs.
C19_OthersDispatchedWhenDue ==
    [][\A e \in Names \ {FailingEndpoint} : TickDue(e) => now' = now]_vars

\* ---------------------------------------------------------------- C21
\* The probe of an endpoint that was created without an extractor, answered
\* without a transport error.
NoExtractorGiven ==
    Derived /\ din.resp.err = NoError /\ din.x = toPollerExtractor(NoExtractor)

\* C21: an endpoint created without an extractor gets the status that
\* DefaultExtractor gives to the response: that of the JSON status field of
\* the body when the field yields one, that of the status code otherwise.
C21_DefaultExtractorApplied ==
    NoExtractorGiven =>
        dout.status = DefaultExtractor(din.resp.body, din.resp.code)

\* ---------------------------------------------------------------- C22
\* The ticker of the control loop exists.
TickerCreated == tickerNext # NoTime

\* C22: every configured endpoint is handed to the work queue exactly once,
\* in the instant of the start, whatever its interval: once the clock has
\* moved or the ticker has been created, the endpoints dispatched before
\* the ticker existed are the configured ones, each once.
C22_ImmediatePollOfAll ==
    (started /\ (now > 0 \/ TickerCreated)) => firstDispatch = EndpointList

\* Both endpoints are dispatched, the clock has moved, and the first poll is
\* still waiting for the probe of b: there is no ticker yet.
C22_Witness ==
    /\ firstDispatch = EndpointList
    /\ now = 1 /\ ~TickerCreated
    /\ Probing("b")

\* ---------------------------------------------------------------- C23
\* In this step a probe of e starts, and it is not the first one.
NextProbeStarts(e) == pstart'[e] # pstart[e] /\ pstart[e] # NoTime

\* The latest ended probe of e took longer than the base tick period.
LongProbe(e) == pdur[e] # NoTime /\ pdur[e] > baseInterval

InFlight == {w \in WorkerSlots : wpc[w] = "probe"}

\* C24: at any moment at most maxConcurrency probes are in flight.
C24_AtMostMaxConcurrencyInFlight == Card(InFlight) <= maxConcurrency

\* With one worker, a probe is in flight while another endpoint of the same
\* tick waits in the work queue.
C24_Witness ==
    /\ maxConcurrency = 1
    /\ Card(InFlight) = 1
    /\ jobs # <<>>

\* C25: for every result the callbacks are invoked in registration order;
\* a callback that panics is logged and the loop goes on with the next
\* callback, so every callback is invoked for that result and for the
\* results after it.
AllCallbacks == [i \in 1..Len(StatusCallbacks) |-> i]
C25_CallbacksInOrderDespitePanic ==
    [][/\ \A i \in 1..Len(kdone') : kdone'[i] = i
       /\ (klog' # klog) =>
              /\ kpc' = "callbacks" /\ kcb' = kcb + 1 /\ ~crashed'
              /\ klog' = klog \cup {[cb |-> kcb, endpoint |-> kres.name]}
       /\ (kpc = "callbacks" /\ kpc' = "range") => kdone = AllCallbacks]_vars
\* The first callback panicked for a result of another endpoint, an earlier
\* result, and both callbacks have been invoked for the current one.
C25_Witness ==
    /\ \E l \in klog : l.cb = 1 /\ l.endpoint # kres.name
    /\ kdone = AllCallbacks
    /\ kpc = "incb"

\* C26: what a callback writes to the label map or to the raw response of
\* the result it was given is found by nothing but that invocation: not in
\* the Store's entry, not in what the streaming client is sent or has
\* received, and not by a later callback invocation.
C26_CallbackWritesStayLocal ==
    /\ \A e \in statuses : heap[EntryLabels(e.name)] \notin CallbackIds
    /\ \A h \in Handles : \A i \in 1..Len(queue[h]) :
           heap[SubscriptionLabels(queue[h][i].name)] \notin CallbackIds
    /\ \A g \in Receivers : \A c \in held[g] : heap[c] \notin CallbackIds
    /\ kpc = "incb" => kseen.labels \notin CallbackIds /\ kseen.raw \notin CallbackIds

\* C27: a receiver of a stored result (a caller of GetAll, a subscriber)
\* that writes to the label map of what it holds changes neither the
\* Store's entry, nor what another receiver holds or is still to receive,
\* nor the results that follow for that endpoint.
C27_ReceiversShareNoLabels ==
    /\ \A e \in statuses : heap[EntryLabels(e.name)] \notin Receivers
    /\ \A g \in Receivers : \A c \in held[g] : heap[c] \in {"orig", g}
    /\ \A h \in Handles : \A i \in 1..Len(queue[h]) :
           heap[SubscriptionLabels(queue[h][i].name)] \notin Receivers
    /\ \A i \in 1..Len(results) :
           heap[pollEndpointLabels(results[i].name)] \notin Receivers

\* C28: teardown is in order, whether or not the scheduler was started: the
\* result stream is closed only when all workers have exited, and the probe
\* client's connections are released only when the stream is closed.
C28_TeardownInOrder ==
    /\ resultsClosed => WorkersExited
    /\ clientClosed => resultsClosed

\* C29: PulseBoard.Start does not return while its context is live, unless
\* the HTTP server failed to start; after a cancellation it returns nil,
\* and when it returns the scheduler is stopped and every result sent to
\* the result stream has been applied to the Store and been through all
\* callbacks.
Returned == ppc = "returned"
C29_ReturnsOnlyAfterDrain ==
    /\ Returned => parentDone \/ srv = "failed"
    /\ (Returned /\ srv # "failed") => pret = "nil"
    /\ (Returned /\ calls > 0) =>
           /\ stopReturned /\ LoopExited /\ WorkersExited
           /\ resultsClosed /\ results = <<>>
           /\ kpc = "done" /\ cbrun = {}
           /\ updates = nsent /\ ndone = nsent
\* Once the context is cancelled, Start returns.
C29_ReturnsAfterCancel == parentDone ~> Returned
C29_StartReturn == []C29_ReturnsOnlyAfterDrain /\ C29_ReturnsAfterCancel
C29_Witness ==
    /\ Returned /\ pret = "nil" /\ srv # "failed"
    /\ nsent = Len(EndpointList)
    /\ ndone = nsent

\* C30: when PulseBoard.Start has returned after the cancellation of its
\* context, nothing it started is running: the HTTP server has finished its
\* shutdown and released the port, and every streaming loop has exited and
\* unsubscribed.
C30_NothingLeftRunning ==
    (Returned /\ parentDone /\ pret = "nil") =>
        /\ srv \in {"none", "closed"}
        /\ spc \in {"none", "done"}
        /\ \A k \in Conns : hpc[k] \in {"idle", "done"} /\ hch[k] \notin subscribers

\* C31: when the HTTP server cannot bind its port, PulseBoard.Start returns
\* (it does not block), what it returns is an error, and at its return the
\* scheduler is stopped, the result consumer has finished and no worker or
\* probe is left.
BindFailed == srv = "failed"
C31_BindFailureState ==
    (Returned /\ BindFailed) =>
        /\ pret = "error"
        /\ stopped /\ stopReturned
        /\ LoopExited /\ WorkersExited
        /\ kpc = "done" /\ cbrun = {}
        /\ resultsClosed /\ results = <<>>
C31_BindFailureReturnsError ==
    []C31_BindFailureState /\ (BindFailed ~> Returned)
C31_Witness ==
    /\ Returned /\ BindFailed /\ pret = "error"
    /\ ~parentDone
    /\ nsent > 0

\* C32: when the loop handles a tick, the endpoints it dispatches are those
\* never polled or last polled at least their effective interval ago; the
\* last-poll time of each of them becomes the time of the tick and that of
\* every other endpoint stays; what is handed to the workers is the due
\* endpoints, each once, and all of them before the next tick is handled.
TickHandled == lpc = "select" /\ tickPending /\ ~tickPending'
DueAtTick(e) ==
    \/ lastPolledAt[e] = NoTime
    \/ now - lastPolledAt[e] >= (IF EpInterval[e] # 0 THEN EpInterval[e]
                                                      ELSE SchedulerConfig.interval)
C32_DueRule ==
    [][/\ TickHandled =>
            /\ due = <<>>
            /\ SeqToSet(due') = {e \in Names : DueAtTick(e)}
            /\ Len(due') = Cardinality({e \in Names : DueAtTick(e)})
            /\ \A e \in Names :
                   lastPolledAt'[e] = IF DueAtTick(e) THEN now ELSE lastPolledAt[e]
       /\ ~TickHandled /\ lpc # "immediate" => lastPolledAt' = lastPolledAt
       /\ jobs' # jobs /\ Len(jobs') > Len(jobs) =>
            /\ due # <<>>
            /\ jobs' = Append(jobs, Head(due)) /\ due' = Tail(due)]_vars
\* A tick at which one endpoint is due and the other is not has been handled.
C32_Witness ==
    /\ tickerNext # NoTime
    /\ lpc = "dispatch"
    /\ jobs = <<"a">> /\ due = <<>>
    /\ lastPolledAt["a"] = now
    /\ lastPolledAt["b"] # NoTime /\ lastPolledAt["b"] < now

\* C33: the base tick period is the greatest common divisor of the
\* endpoints' effective intervals, or one second if that is less; without
\* endpoints it is the global interval.
EffectiveIntervals(in) ==
    {IF in.endpoints[i] # 0 THEN in.endpoints[i] ELSE in.interval :
        i \in 1..Len(in.endpoints)}
CommonDivisors(S) == {d \in 1..20 : \A x \in S : x % d = 0}
GreatestCommonDivisor(S) ==
    CHOOSE d \in CommonDivisors(S) : \A e \in CommonDivisors(S) : e <= d
Calculated == dout # NoOutput
C33_BaseIntervalIsGCD ==
    Calculated =>
        dout.base =
            IF din.endpoints = <<>> THEN din.interval
            ELSE LET g == GreatestCommonDivisor(EffectiveIntervals(din))
                 IN  IF g < Second THEN Second ELSE g
\* An endpoint every 1.5 s and one on the global 1 s: the divisor is half a
\* second and the period one second.
C33_Witness ==
    /\ Calculated
    /\ din.endpoints = <<6, 0>> /\ din.interval = 4
    /\ GreatestCommonDivisor(EffectiveIntervals(din)) = 2
    /\ dout.base = Second

\* C34: at most one probe of an endpoint is in flight: no two workers probe
\* the same endpoint, a probe of an endpoint starts only while none of that
\* endpoint runs, and a round of polling begins only when no worker of the
\* round before is left, however long its probes took.
ProbesOf(e) == {w \in WorkerSlots : wpc[w] = "probe" /\ wep[w] = e}
ProbeStarts(e) ==
    \E w \in WorkerSlots : wpc[w] # "probe" /\ wpc'[w] = "probe" /\ wep'[w] = e
RoundBegins == lpc # "dispatch" /\ lpc' = "dispatch"
C34_OneProbePerEndpoint ==
    /\ [](\A e \in Names : Cardinality(ProbesOf(e)) <= 1)
    /\ [][\A e \in Names : ProbeStarts(e) => ProbesOf(e) = {}]_vars
    /\ [][RoundBegins => \A w \in WorkerSlots : wpc[w] = "none"]_vars
\* The probe of b has run past a tick at which both endpoints are due again,
\* and the tick waits.
C34_Witness ==
    /\ tickerNext # NoTime /\ tickPending /\ lpc = "wait"
    /\ ProbesOf("b") # {}
    /\ now - pstart["b"] >= EffectiveInterval("b")
    /\ now - lastPolledAt["a"] >= EffectiveInterval("a")

\* C35: however Start, the calls of Stop and the parent's cancellation
\* interleave, close(s.results) runs at most once, inside the first
\* closeOnce.Do, the stream stays closed, no value is sent on it once it is
\* closed, and the stream is closed when the loop has exited and when a call
\* of Stop has returned.
CloseRuns == ~resultsClosed /\ resultsClosed'
SendOnResults == Len(results') > Len(results)
C35_ClosedOnceNoLateSend ==
    /\ [][/\ CloseRuns => ~onceDone /\ onceDone'
          /\ onceDone => onceDone' /\ resultsClosed'
          /\ SendOnResults => ~resultsClosed /\ ~resultsClosed']_vars
    /\ [](onceDone <=> resultsClosed)
    /\ []((LoopExited \/ stopReturned) => resultsClosed)
\* The parent was cancelled while a worker held a result; the worker has
\* left, the loop has closed the stream, and two calls of Stop are on their
\* way to closeOnce.
C35_Witness ==
    /\ parentDone /\ resultsClosed /\ lpc = "done"
    /\ results # <<>>
    /\ \A w \in WorkerSlots : wpc[w] = "none"
    /\ \E c \in Callers : cpc[c] = "stopWait"
    /\ \E c \in Callers : cpc[c] = "stopOnce"

\* C36: the Store's entry for a name is replaced only by the result of a
\* probe of that name that started later than the probe whose result it
\* holds; the consumer takes the results of a name in the order of their
\* probes.
C36_AppliedInProbeOrder ==
    [][/\ \A e \in Names : sseq'[e] # sseq[e] => sseq'[e] > sseq[e]
       /\ updates' # updates => sseq'[kres.name] = kseq /\ kseq > sseq[kres.name]
       /\ kseq' # kseq => \A i \in 1..Len(rseq') :
                              results'[i].name = kres'.name => rseq'[i] > kseq']_vars
\* The Store holds the result of the second probe of a, up, which replaced
\* that of the first, down.
C36_Witness ==
    /\ sseq["a"] = 2 /\ pseq["a"] = 2 /\ sseq["b"] = 1
    /\ [name |-> "a", status |-> "up", err |-> ""] \in statuses
    /\ [name |-> "b", status |-> "down", err |-> ""] \in statuses
    /\ maxConcurrency = 2

\* C37: on a connection, after a result of a name has been written no
\* result of that name that was applied to the Store before it is written.
\* While the Store has seen at most two updates, two different results of a
\* name that were both written were both applied, and the one the Store
\* does not hold now was applied first.
WrittenBefore(k, x, y) ==
    \E i, j \in 1..Len(hwritten[k]) :
        i < j /\ hwritten[k][i] = x /\ hwritten[k][j] = y
AppliedBefore(y, x) ==
    /\ updates <= 2
    /\ x.name = y.name /\ x # y
    /\ lastApplied[x.name] = x
C37_WrittenInAppliedOrder ==
    \A k \in Conns : \A x, y \in StoreResults :
        WrittenBefore(k, x, y) => ~AppliedBefore(y, x)

\* C38: with one producer, a connection that stays open, whose writes end
\* and never fail and whose queue never overflows comes to rest with the
\* last event written for each name equal to the Store's entry for it,
\* wherever its Subscribe and GetAll fell between the steps of Update.
RECURSIVE LastOf(_, _)
LastOf(s, n) ==
    IF s = <<>> THEN NoStoreResult
    ELSE IF s[Len(s)].name = n THEN s[Len(s)]
    ELSE LastOf(SubSeq(s, 1, Len(s) - 1), n)
StaysOpen(k) ==
    /\ hwd[k] /\ ~hfail[k] /\ ~ReqCtxDone(k)
    /\ hch[k] \in Handles => ~chClosed[hch[k]]
NoOverflow(k) == \A p \in Producers : hch[k] \notin udrop[p]
Converged(k) ==
    /\ hpc[k] = "select"
    /\ \A e \in statuses : LastOf(hwritten[k], e.name) = e
C38_Converges ==
    \A k \in Conns :
        ([](StaysOpen(k) /\ NoOverflow(k)) /\ <>(hpc[k] # "idle"))
            => <>[]Converged(k)
\* The snapshot overtook a queued update (C37) and the next event set it
\* right.
C38_Witness ==
    \E k \in Conns :
        /\ StaysOpen(k) /\ NoOverflow(k) /\ Converged(k)
        /\ upc[TheProducer] = "idle" /\ updates = MaxUpdates
        /\ Len(hwritten[k]) = 3
        /\ hwritten[k][1] = hwritten[k][3] /\ hwritten[k][2] # hwritten[k][3]
        /\ hwritten[k][2].name = hwritten[k][3].name

\* C39: a result whose transport error is the cancellation of the run is
\* never applied to the Store, queued for a streaming client or passed to
\* a callback.
Cancelled(r) == r.err = "context canceled"
C39_CancelledResultNeverShown ==
    /\ \A e \in statuses : ~Cancelled(e)
    /\ \A h \in Handles : \A i \in 1..Len(queue[h]) : ~Cancelled(queue[h][i])
    /\ cbrun # {} => ~Cancelled(kres)
====
